---- MODULE Spec2Model ----
(***************************************************************************)
(* JayDL backend (src/backend/app.py): the resolution chain of             *)
(* InvidiousDownloader.get_video_info.  One resolve call is modelled as a  *)
(* state machine whose steps are the outbound calls of the code (one HTTP  *)
(* request to a mirror, one yt-dlp subprocess run); the code between two   *)
(* outbound calls is part of the step that precedes it.                    *)
(*                                                                         *)
(* Six specifications share the module:                                    *)
(*   Spec          one get_video_info call;                                *)
(*   SpecLimiter   SpotifyRateLimitTracker and the _download_spotify calls *)
(*                 of a process, made one after the other over the days;    *)
(*   SpecPure      detect_platform, _extract_video_id and                  *)
(*                 _get_available_formats applied to one argument;         *)
(*   SpecDownload  one POST /api/download request served by yt-dlp or by a *)
(*                 direct Invidious URL;                                   *)
(*   SpecRace      two such requests at the same time on one directory;    *)
(*   SpecThreads   increment_and_check called by two threads at once.      *)
(* Each leaves the variables of the others at their idle values.           *)
(***************************************************************************)
EXTENDS Integers, Sequences, FiniteSets, TLC

(***************************************************************************)
(* Bounds of the model.                                                    *)
(***************************************************************************)
\* number of entries of self.invidious_instances walked by the model
NumInvidious == 2
\* number of entries of self.piped_instances walked by the model
NumPiped == 2
\* longest formatStreams / adaptiveFormats list of an Invidious body
MaxStreams == 1
\* longest result list of an Invidious search body
MaxHits == 1

(***************************************************************************)
(* Python values.                                                          *)
(***************************************************************************)
\* dict.get(key) of a missing key / an optional value: <<>> absent, <<x>> present
Absent == <<>>
Some(x) == <<x>>

Range(s) == {s[i] : i \in DOMAIN s}

SeqsUpTo(S, n) == UNION {[1..k -> S] : k \in 0..n}

(***************************************************************************)
(* URLs.  A URL is the record urlparse makes of it: netloc, the path       *)
(* segments and the value of the query parameter v.  Substring tests       *)
(* ('youtube.com' in url_lower) are tables over the components.            *)
(***************************************************************************)
VideoIds == {"ABCDEFGHIJK"}

URLs ==
  { [netloc |-> "www.youtube.com", path |-> <<"watch">>, v |-> Some("ABCDEFGHIJK")],
    [netloc |-> "www.youtube.com", path |-> <<"watch">>, v |-> Absent],
    [netloc |-> "www.youtube.com", path |-> <<"shorts", "ABCDEFGHIJK">>, v |-> Absent],
    [netloc |-> "youtu.be", path |-> <<"ABCDEFGHIJK">>, v |-> Absent],
    [netloc |-> "youtu.be", path |-> <<>>, v |-> Absent],
    [netloc |-> "WWW.YOUTUBE.COM", path |-> <<"watch">>, v |-> Some("ABCDEFGHIJK")],
    [netloc |-> "example.org", path |-> <<"shorts", "ABCDEFGHIJK">>, v |-> Absent],
    [netloc |-> "example.org", path |-> <<"go">>, v |-> Some("youtube.com")],
    [netloc |-> "www.tiktok.com", path |-> <<"video">>, v |-> Absent],
    [netloc |-> "open.spotify.com", path |-> <<"track">>, v |-> Absent],
    [netloc |-> "example.org", path |-> <<"clip">>, v |-> Absent] }

\* str.lower() on the components that occur in URLs
Lower(s) == IF s = "WWW.YOUTUBE.COM" THEN "www.youtube.com" ELSE s

\* pat in s, for the components that occur in URLs (case-sensitive)
Has(s, pat) ==
  <<s, pat>> \in { <<"www.youtube.com", "youtube.com">>,
                   <<"youtube.com", "youtube.com">>,
                   <<"youtu.be", "youtu.be">>,
                   <<"www.tiktok.com", "tiktok.com">>,
                   <<"open.spotify.com", "spotify.com">>,
                   <<"www.instagram.com", "instagram.com">>,
                   <<"twitter.com", "twitter.com">>,
                   <<"x.com", "x.com">>,
                   <<"shorts", "shorts">> }

\* the components of the URL string
Parts(url) == {url.netloc} \cup Range(url.path) \cup Range(url.v)

\* pat in url.lower()
InUrlLower(url, pat) == \E p \in Parts(url) : Has(Lower(p), pat)

detect_platform(url) ==
  IF InUrlLower(url, "youtube.com") \/ InUrlLower(url, "youtu.be") THEN "youtube"
  ELSE IF InUrlLower(url, "tiktok.com") THEN "tiktok"
  ELSE IF InUrlLower(url, "instagram.com") THEN "instagram"
  ELSE IF InUrlLower(url, "twitter.com") \/ InUrlLower(url, "x.com") THEN "twitter"
  ELSE IF InUrlLower(url, "spotify.com") THEN "spotify"
  ELSE "generic"

\* parsed_url.path.strip('/') of a path given by its segments (the youtu.be
\* paths of URLs have at most one segment)
StripPath(path) == IF Len(path) = 0 THEN "" ELSE path[1]

\* the result is Absent for None, Some(id) otherwise; Some("") is the empty string
_extract_video_id(url) ==
  IF Has(url.netloc, "youtube.com") THEN url.v
  ELSE IF Has(url.netloc, "youtu.be")
       THEN Some(StripPath(url.path))
  ELSE IF \E i \in DOMAIN url.path : Has(url.path[i], "shorts")
       THEN Some(url.path[Len(url.path)])
  ELSE Absent

\* mutant: 'is not None' in place of truthiness
Truthy_notNone(o) == o # Absent

\* Python truthiness of an optional string: None and '' are falsy
Truthy(o) == o # Absent /\ o # Some("")

(***************************************************************************)
(* Bodies of the Invidious API (GET /api/v1/videos/<id>).                  *)
(***************************************************************************)
\* data.get('title') of a JSON object: missing, empty or a title
OptTitles == {Absent, Some(""), Some("T")}
\* the titles the mirrors' bodies carry
MirrorTitles == {Absent, Some("T")}

\* the 'type' strings of a stream, and the two tests the parser makes on them
StreamTypes == {"video/mp4", "audio"}
ContainsVideo(t) == t = "video/mp4"
EqualsAudio(t) == t = "audio"

\* stream.get('url'): '' (falsy) or a direct URL
StreamUrls == {"", "https://cdn/u"}
Labels == {"720p"}

\* an entry of formatStreams or adaptiveFormats; label is qualityLabel in the
\* first list and audioQuality in the second
Streams == [type : StreamTypes, url : StreamUrls, label : Labels]

\* a JSON body that is no object (data.get raises), or the object
NonDict == [dict |-> FALSE]
InvidiousBodies ==
  {NonDict} \cup
  [dict : {TRUE}, title : MirrorTitles,
   formatStreams : SeqsUpTo(Streams, MaxStreams),
   adaptiveFormats : SeqsUpTo(Streams, MaxStreams)]

\* the 'filesize' of a format entry: None, the string 'Unknown' or a byte count
NoneSize == [kind |-> "None", bytes |-> 0]
UnknownSize == [kind |-> "Unknown", bytes |-> 0]
Bytes(n) == [kind |-> "bytes", bytes |-> n]

\* a canonical format entry of the result ('format_id' is an f-string, kept as
\* its pieces; missing keys are Absent)
Format(id, type, height, filesize, container, url) ==
  [format_id |-> id, type |-> type, height |-> height, filesize |-> filesize,
   container |-> container, url |-> url]

\* mutant: the stream.get('url') test left out
VideoStreamKept_noUrlTest(stream) == ContainsVideo(stream.type)

VideoStreamKept(stream) == ContainsVideo(stream.type) /\ stream.url # ""
AudioStreamKept(stream) == EqualsAudio(stream.type) /\ stream.url # ""

\* the streams of the body carry no size and no container: both keys are None
VideoStreamFormat(stream) ==
  Format(<<"invidious_", stream.label>>, "video", Absent, NoneSize, Absent, stream.url)
AudioStreamFormat(stream) ==
  Format(<<"invidious_audio_", stream.label>>, "audio", Absent, NoneSize, Absent, stream.url)

\* the loop over data.get('formatStreams', [])
RECURSIVE VideoFormats(_)
VideoFormats(streams) ==
  IF streams = <<>> THEN <<>>
  ELSE (IF VideoStreamKept(Head(streams)) THEN <<VideoStreamFormat(Head(streams))>> ELSE <<>>)
       \o VideoFormats(Tail(streams))

\* the loop over data.get('adaptiveFormats', [])
RECURSIVE AudioFormats(_)
AudioFormats(streams) ==
  IF streams = <<>> THEN <<>>
  ELSE (IF AudioStreamKept(Head(streams)) THEN <<AudioStreamFormat(Head(streams))>> ELSE <<>>)
       \o AudioFormats(Tail(streams))

\* the formats list _parse_invidious_response builds from the body's streams
InvidiousFormats(data) == VideoFormats(data.formatStreams) \o AudioFormats(data.adaptiveFormats)

\* data.get('title', f'Video {video_id[:8]}...'): the default is kept as its pieces
DefaultTitle(video_id) == <<"Video ", video_id, "...">>
GetTitle(data, video_id) ==
  IF data.title = Absent THEN DefaultTitle(video_id) ELSE <<data.title[1]>>

(***************************************************************************)
(* The extraction tool (yt-dlp) as a subprocess: what one run returns.     *)
(***************************************************************************)
\* entries of the 'formats' list of a --dump-json document; filesize is
\* fmt.get('filesize') or fmt.get('filesize_approx') or 0, height 0 is a
\* missing height
RawFormats ==
  { [vcodec |-> "avc1", acodec |-> "none", height |-> 720, ext |-> "mp4", filesize |-> 5, format_id |-> "136"],
    [vcodec |-> "avc1", acodec |-> "mp4a", height |-> 720, ext |-> "mp4", filesize |-> 9, format_id |-> "22"],
    [vcodec |-> "vp9", acodec |-> "none", height |-> 720, ext |-> "webm", filesize |-> 0, format_id |-> "247"],
    [vcodec |-> "vp9", acodec |-> "none", height |-> 360, ext |-> "webm", filesize |-> 5, format_id |-> "243"],
    [vcodec |-> "avc1", acodec |-> "none", height |-> 240, ext |-> "mp4", filesize |-> 5, format_id |-> "133"],
    [vcodec |-> "none", acodec |-> "mp4a", height |-> 0, ext |-> "m4a", filesize |-> 5, format_id |-> "140"],
    [vcodec |-> "none", acodec |-> "opus", height |-> 0, ext |-> "webm", filesize |-> 0, format_id |-> "251"],
    [vcodec |-> "none", acodec |-> "none", height |-> 0, ext |-> "mhtml", filesize |-> 0, format_id |-> "sb0"] }

\* the 'formats' lists of the documents a resolve call reads
ProbedFormats ==
  LET video == CHOOSE f \in RawFormats : f.format_id = "136"
      audio == CHOOSE f \in RawFormats : f.format_id = "140"
      webm == CHOOSE f \in RawFormats : f.format_id = "247"
  IN {<<>>, <<video>>, <<audio>>, <<video, audio>>, <<video, webm>>}

\* stdout of a --dump-json run: empty, no JSON, JSON that is no object, or the
\* JSON object with its title and formats
StdoutKinds == {"empty", "garbage", "nondict", "dict"}
NoDocument == [kind : StdoutKinds \ {"dict"}, title : {Absent}, formats : {<<>>}]
Documents ==
  [kind : {"dict"}, title : OptTitles, formats : ProbedFormats]
DumpStdouts == NoDocument \cup Documents

\* stdout.strip() of a --get-title run
TitleStdouts == {"", "T"}

\* subprocess.run: TimeoutExpired, or the return code with stdout
Stderrs == {"", "ERROR: [youtube] Sign in to confirm"}
\* (a run that timed out has no return code and no output: one record stands for it;
\* a run that failed prints nothing, or a document all the same)
EmptyStdout == [kind |-> "empty", title |-> Absent, formats |-> <<>>]
DumpRuns ==
  { [timeout |-> TRUE, returncode |-> 1, stdout |-> EmptyStdout, stderr |-> ""] }
  \cup [timeout : {FALSE}, returncode : {1}, stderr : Stderrs,
        stdout : {EmptyStdout} \cup {d \in Documents : d.title = Some("T") /\ Len(d.formats) = 1}]
  \cup [timeout : {FALSE}, returncode : {0}, stdout : DumpStdouts, stderr : Stderrs]
TitleRuns ==
  { [timeout |-> TRUE, returncode |-> 1, stdout |-> "", stderr |-> ""] }
  \cup [timeout : {FALSE}, returncode : {0, 1}, stdout : TitleStdouts, stderr : {""}]

(***************************************************************************)
(* _get_available_formats: the format list built from a --dump-json run.   *)
(***************************************************************************)
DefaultFormat(id, height, type, container) ==
  Format(<<id>>, type, Some(height), UnknownSize, container, "")

_get_default_formats ==
  << DefaultFormat("2160", 2160, "video", Some("mp4")),
     DefaultFormat("1440", 1440, "video", Some("mp4")),
     DefaultFormat("1080", 1080, "video", Some("mp4")),
     DefaultFormat("720", 720, "video", Some("mp4")),
     DefaultFormat("480", 480, "video", Some("mp4")),
     DefaultFormat("360", 360, "video", Some("mp4")),
     DefaultFormat("mp4", 0, "video", Some("mp4")),
     DefaultFormat("bestaudio", 0, "audio", Absent),
     DefaultFormat("192", 0, "audio", Absent),
     DefaultFormat("128", 0, "audio", Absent) >>

\* position of the first entry of the sequence s whose field key is k, 0 if none
IndexOf(s, k) ==
  IF \E i \in DOMAIN s : s[i].key = k
  THEN CHOOSE i \in DOMAIN s : s[i].key = k /\ \A j \in 1..(i - 1) : s[j].key # k
  ELSE 0

\* dict[k] = v on an insertion-ordered dict kept as a sequence of [key, val]
DictSet(d, k, v) ==
  IF IndexOf(d, k) = 0 THEN Append(d, [key |-> k, val |-> v])
  ELSE [d EXCEPT ![IndexOf(d, k)].val = v]

DictHas(d, k) == IndexOf(d, k) # 0
DictGet(d, k) == d[IndexOf(d, k)].val

IsVideoEntry(fmt) == fmt.vcodec # "none" /\ fmt.height # 0
IsAudioOnly(fmt) == fmt.acodec # "none" /\ fmt.vcodec = "none"

\* mutant: the size seen last is kept
KeepLargest_keepLast(containers, container, filesize) ==
  DictSet(containers, container, filesize)

\* keep the largest filesize for each height+container combination
KeepLargest(containers, container, filesize) ==
  IF ~DictHas(containers, container) \/ filesize > DictGet(containers, container)
  THEN DictSet(containers, container, filesize)
  ELSE containers

\* the first loop over formats_data: available_heights {height: {container: filesize}}
RECURSIVE AvailableHeights(_, _)
AvailableHeights(formats_data, acc) ==
  IF formats_data = <<>> THEN acc
  ELSE LET fmt == Head(formats_data)
           withHeight == IF DictHas(acc, fmt.height) THEN acc ELSE DictSet(acc, fmt.height, <<>>)
           next == IF IsVideoEntry(fmt)
                   THEN DictSet(withHeight, fmt.height,
                                KeepLargest(DictGet(withHeight, fmt.height), fmt.ext, fmt.filesize))
                   ELSE acc
       IN AvailableHeights(Tail(formats_data), next)

\* the first loop over formats_data: audio_formats {format_id: filesize}
RECURSIVE AudioSizes(_, _)
AudioSizes(formats_data, acc) ==
  IF formats_data = <<>> THEN acc
  ELSE LET fmt == Head(formats_data)
       IN AudioSizes(Tail(formats_data),
                     IF IsAudioOnly(fmt) THEN DictSet(acc, fmt.format_id, fmt.filesize) ELSE acc)

SizeOrUnknown(filesize) == IF filesize > 0 THEN Bytes(filesize) ELSE UnknownSize

quality_options ==
  << [id |-> "2160", height |-> 2160], [id |-> "1440", height |-> 1440],
     [id |-> "1080", height |-> 1080], [id |-> "720", height |-> 720],
     [id |-> "480", height |-> 480], [id |-> "360", height |-> 360] >>

\* one entry per container of one height
RECURSIVE ContainerEntries(_, _)
ContainerEntries(option, containers) ==
  IF containers = <<>> THEN <<>>
  ELSE << Format(<<option.id>>, "video", Some(option.height),
                 SizeOrUnknown(Head(containers).val), Some(Head(containers).key), "") >>
       \o ContainerEntries(option, Tail(containers))

\* for each quality, all available container versions
RECURSIVE QualityEntries(_, _)
QualityEntries(options, available_heights) ==
  IF options = <<>> THEN <<>>
  ELSE (IF DictHas(available_heights, Head(options).height)
        THEN ContainerEntries(Head(options), DictGet(available_heights, Head(options).height))
        ELSE <<>>)
       \o QualityEntries(Tail(options), available_heights)

AllContainers(available_heights) ==
  UNION { {c.key : c \in Range(h.val)} : h \in Range(available_heights) }

Max(S) == CHOOSE x \in S : \A y \in S : y <= x

BestFilesize(available_heights, container) ==
  Max({0} \cup { DictGet(h.val, container) :
                 h \in {g \in Range(available_heights) : DictHas(g.val, container)} })

\* the '<container> (Best)' entries, in the iteration order of the set all_containers
RECURSIVE BestEntries(_, _)
BestEntries(order, available_heights) ==
  IF order = <<>> THEN <<>>
  ELSE << Format(<<Head(order)>>, "video", Some(0),
                 SizeOrUnknown(BestFilesize(available_heights, Head(order))),
                 Some(Head(order)), "") >>
       \o BestEntries(Tail(order), available_heights)

\* audio_formats.get('bestaudio', 0) or max(audio_formats.values())
BestAudioSize(audio_formats) ==
  IF DictHas(audio_formats, "bestaudio") /\ DictGet(audio_formats, "bestaudio") # 0
  THEN DictGet(audio_formats, "bestaudio")
  ELSE Max({a.val : a \in Range(audio_formats)})

AudioEntries(audio_formats) ==
  IF audio_formats = <<>> THEN <<>>
  ELSE << Format(<<"bestaudio">>, "audio", Some(0),
                 SizeOrUnknown(BestAudioSize(audio_formats)), Absent, ""),
          Format(<<"192">>, "audio", Some(0), UnknownSize, Absent, ""),
          Format(<<"128">>, "audio", Some(0), UnknownSize, Absent, "") >>

\* the iteration orders a Python set of strings can have
Orders(S) == {o \in [1..Cardinality(S) -> S] : Range(o) = S}

\* the list built from the parsed document, for one iteration order of all_containers
BuiltFormats(formats_data, order) ==
  LET available_heights == AvailableHeights(formats_data, <<>>)
  IN QualityEntries(quality_options, available_heights)
     \o BestEntries(order, available_heights)
     \o AudioEntries(AudioSizes(formats_data, <<>>))

\* the run failed, timed out or printed no JSON object: the except branch and
\* the returncode test both return the defaults
FormatsRunFailed(run) ==
  run.timeout \/ run.returncode # 0 \/ run.stdout.kind # "dict"

\* _get_available_formats without the default list
AvailableFormats_noDefaults(run) ==
  IF FormatsRunFailed(run) THEN {<<>>}
  ELSE { BuiltFormats(run.stdout.formats, order) :
         order \in Orders(AllContainers(AvailableHeights(run.stdout.formats, <<>>))) }

\* the lists _get_available_formats can return for one subprocess run
AvailableFormats(run) ==
  IF FormatsRunFailed(run) THEN {_get_default_formats}
  ELSE { IF BuiltFormats(run.stdout.formats, order) = <<>> THEN _get_default_formats
         ELSE BuiltFormats(run.stdout.formats, order) :
         order \in Orders(AllContainers(AvailableHeights(run.stdout.formats, <<>>))) }

(***************************************************************************)
(* Bodies of the Piped API (GET /streams/<id>) and of the Invidious        *)
(* search (GET /api/v1/search?q=<title>).                                  *)
(***************************************************************************)
\* NonDict stands for every body on which _parse_piped_response raises
PipedBodies == {NonDict} \cup [dict : {TRUE}, title : MirrorTitles]

\* an item of the search result list
Hits == [type : {"video", "channel"}, videoId : VideoIds \cup {"ZZZZZZZZZZZ"}]

\* a JSON body whose iteration or whose item.get raises (an object, null, a
\* list of strings), or the list of hits
Malformed == [list |-> FALSE, hits |-> <<>>]
SearchBodies == {Malformed} \cup [list : {TRUE}, hits : SeqsUpTo(Hits, MaxHits)]

\* next((item for item in search_results if ...), None) is not None
found_video(search_results, video_id) ==
  \E i \in DOMAIN search_results.hits :
     search_results.hits[i].type = "video" /\ search_results.hits[i].videoId = video_id

(***************************************************************************)
(* Result dictionaries.                                                    *)
(***************************************************************************)
NoSource == ""
None == [kind |-> "None", success |-> FALSE, error |-> "", title |-> <<>>,
         formats |-> <<>>, source |-> NoSource, platform |-> ""]
Success(title, formats, source, platform) ==
  [kind |-> "dict", success |-> TRUE, error |-> "", title |-> title,
   formats |-> formats, source |-> source, platform |-> platform]
Failure(error) ==
  [kind |-> "dict", success |-> FALSE, error |-> error, title |-> <<>>,
   formats |-> <<>>, source |-> NoSource, platform |-> ""]

(***************************************************************************)
(* State of one get_video_info call.                                       *)
(***************************************************************************)
VARIABLES
  pc,          \* the outbound call the code is about to make, "idle" or "done"
  url,         \* the argument of get_video_info
  video_id,    \* the local video_id
  tier,        \* the strategy of get_video_info that is running (1..4), 0 outside them
  idx,         \* position of the running loop in its instance list
  inFallback,  \* _get_available_formats was called by _get_fallback_info
  pending,     \* the title a parser holds while it waits for the format list
  calls,       \* history: the outbound calls made so far, in order
  tierOut,     \* history: what each strategy call of get_video_info produced
  result       \* the value get_video_info returned

\* the state of one get_video_info call
resolveVars == <<pc, url, video_id, tier, idx, inFallback, pending, calls, tierOut, result>>

(***************************************************************************)
(* State of the Spotify rate limiter (the module-level                     *)
(* spotify_rate_limiter and its state file) and of one _download_spotify   *)
(* call.                                                                   *)
(***************************************************************************)
VARIABLES
  today,            \* datetime.now().strftime('%Y-%m-%d'), as a day number
  rate_limit_file,  \* the content of .spotify_rate_limit.txt
  last_reset_date,  \* spotify_rate_limiter.last_reset_date
  download_count,   \* spotify_rate_limiter.download_count
  dl_pc,            \* the outbound call _download_spotify is about to make, or "idle"
  dl_result,        \* the value the last _download_spotify call returned
  http_calls,       \* history: the HTTP requests of the running (or last) call
  checks            \* history: the increment_and_check calls made on the date today

limiterVars == <<today, rate_limit_file, last_reset_date, download_count,
                 dl_pc, dl_result, http_calls, checks>>

(***************************************************************************)
(* State of one application of a pure function of InvidiousDownloader.     *)
(***************************************************************************)
VARIABLES
  fn,       \* the function that is applied
  arg,      \* its argument
  applied,  \* the function has returned
  out       \* the value it returned

pureVars == <<fn, arg, applied, out>>

(***************************************************************************)
(* State of the POST /api/download requests the process is serving (the    *)
(* route download_media and the yt-dlp branch of                           *)
(* InvidiousDownloader.download_media) and of the output directory they    *)
(* share.                                                                  *)
(***************************************************************************)
VARIABLES
  req_pc,    \* per request: the step the code is about to make, "idle" or "done"
  request,   \* per request: the JSON body of the request and the media behind its URL
  response,  \* per request: the JSON the route answered
  base_dir,  \* the files of downloader.base_dir
  fresh,     \* history, per request: the source and formats of the re-analysis
  runs,      \* history, per request: the yt-dlp subprocess runs made for it, in order
  located    \* history, per request: the tier of the locator that found a file, 0 for none

downloadVars == <<req_pc, request, response, base_dir, fresh, runs, located>>

(***************************************************************************)
(* State of the request threads that are inside                            *)
(* spotify_rate_limiter.increment_and_check at the same time.              *)
(***************************************************************************)
VARIABLES
  thread_pc,   \* per thread: the statement of increment_and_check it is about to run
  started,     \* history: the increment_and_check calls entered
  finished,    \* history: the increment_and_check calls that returned
  told_free    \* history: the calls that returned is_at_limit = False

threadVars == <<thread_pc, started, finished, told_free>>

(***************************************************************************)
(* State of the server processes that share the file                       *)
(* .spotify_rate_limit.txt, each with a SpotifyRateLimitTracker of its own.*)
(***************************************************************************)
VARIABLES
  proc_pc,      \* per process: the statement of increment_and_check it is about to run
  proc_tracker  \* per process: last_reset_date and download_count of its tracker

procVars == <<proc_pc, proc_tracker>>

(***************************************************************************)
(* State of the Google sign-in: Flask's cookie session of each browser     *)
(* (routes authorize, oauth2callback, oauth_logout).                       *)
(***************************************************************************)
VARIABLES
  session,   \* per browser: the keys 'oauth_state' and 'credentials' of its session
  issued,    \* history: how many state values flow.authorization_url has made
  last_cb    \* history: the last call of oauth2callback and what it answered

oauthVars == <<session, issued, last_cb>>

(***************************************************************************)
(* State of the thread cleanup_old_files_background and of DOWNLOAD_DIR,   *)
(* which the downloads of the request threads write into.                  *)
(***************************************************************************)
VARIABLES
  clock,         \* the clock, in seconds
  download_dir,  \* per file name of DOWNLOAD_DIR: no file, or its modification time
  cleanup_pc,    \* "sleep", "scan" (in the for loop) or "remove" (before os.remove)
  current_time,  \* the time the pass read at line 2119
  todo,          \* the names of os.listdir the loop has not come to yet
  cleanup_file,  \* the name the loop is at
  passes         \* history: what the pass listed, looked at, failed on and removed

cleanupVars == <<clock, download_dir, cleanup_pc, current_time, todo, cleanup_file, passes>>

(***************************************************************************)
(* State of the launcher (src/main.py, JayDLLauncher.run) and of the child *)
(* processes it starts.                                                    *)
(***************************************************************************)
VARIABLES
  run_pc,     \* where JayDLLauncher.run is
  child,      \* per service: the state of its process
  processes,  \* self.processes, as the names in it
  cursor,     \* the position of the for loop that run or stop_all is in
  active,     \* active_processes of the monitor loop's current turn
  returned,   \* the value run returned, once it has
  watch       \* history: the exits the monitor loop saw, the children stop_all
              \* stopped, and the service that failed to start

launcherVars == <<run_pc, child, processes, cursor, active, returned, watch>>

\* the parts of the program around the downloader
serviceVars == <<procVars, oauthVars, cleanupVars, launcherVars>>

vars == <<resolveVars, limiterVars, pureVars, downloadVars, threadVars, serviceVars>>

\* what the steps of one part of the program leave alone
notResolveVars == <<limiterVars, pureVars, downloadVars, threadVars, serviceVars>>
notLimiterVars == <<resolveVars, pureVars, downloadVars, threadVars, serviceVars>>
notPureVars == <<resolveVars, limiterVars, downloadVars, threadVars, serviceVars>>
notDownloadVars == <<resolveVars, limiterVars, pureVars, threadVars, serviceVars>>

NoUrl == [netloc |-> "", path |-> <<>>, v |-> Absent]

\* no get_video_info call was made
ResolveIdle ==
  /\ pc = "idle"
  /\ url = NoUrl
  /\ video_id = ""
  /\ tier = 0
  /\ idx = 0
  /\ inFallback = FALSE
  /\ pending = <<>>
  /\ calls = <<>>
  /\ tierOut = [t \in 1..4 |-> "not_run"]
  /\ result = None

(***************************************************************************)
(* SpotifyRateLimitTracker: the daily counter and its state file.          *)
(***************************************************************************)
\* spotify_rate_limiter = SpotifyRateLimitTracker(limit_per_day=20)
limit_per_day == 20
\* the model issues no further download once download_count has reached MaxCount
MaxCount == 22
\* the process starts on day 1 and the model follows it up to day MaxDay
MaxDay == 2

\* day 0 stands for a date before the process started
Dates == 0..MaxDay

\* the state file: missing, not readable as a date line and an integer line
\* (fewer than two lines, or int() raises), or the two lines save_state writes
MissingFile == [kind |-> "missing", date |-> 0, count |-> 0]
GarbageFile == [kind |-> "garbage", date |-> 0, count |-> 0]
SavedFile(date, count) == [kind |-> "lines", date |-> date, count |-> count]
StateFiles ==
  {MissingFile, GarbageFile} \cup {SavedFile(d, c) : d \in Dates, c \in 0..MaxCount}

\* the tracker: its two fields and the file behind it
Tracker(date, count, file) ==
  [last_reset_date |-> date, download_count |-> count, file |-> file]

\* mutant: the write raises and the except branch only logs it
save_state_notWritten(t) == t

save_state(t) == [t EXCEPT !.file = SavedFile(t.last_reset_date, t.download_count)]

reset(t, now) == save_state(Tracker(now, 0, t.file))

\* mutant: the new-day test left out
load_state_noRollover(t, now) ==
  IF t.file.kind = "lines" THEN Tracker(t.file.date, t.file.count, t.file)
  ELSE reset(t, now)

load_state(t, now) ==
  IF t.file.kind = "lines"
  THEN IF t.file.date # now
       THEN save_state(Tracker(now, 0, t.file))
       ELSE Tracker(t.file.date, t.file.count, t.file)
  ELSE reset(t, now)

\* mutant: '>' in place of '>='
is_at_limit_strict(count) == count > limit_per_day

\* the two values increment_and_check returns, from the incremented count
is_at_limit(count) == count >= limit_per_day
remaining(count) == IF limit_per_day - count > 0 THEN limit_per_day - count ELSE 0

\* mutant: a count that has reached the limit is not incremented further
increment_and_check_capped(t, now) ==
  LET loaded == load_state(t, now)
  IN IF loaded.download_count >= limit_per_day THEN save_state(loaded)
     ELSE save_state([loaded EXCEPT !.download_count = @ + 1])

\* increment_and_check: the tracker after load_state, the increment and save_state
increment_and_check(t, now) ==
  LET loaded == load_state(t, now)
  IN save_state([loaded EXCEPT !.download_count = @ + 1])

\* the dicts _download_spotify returns ('resets_at' is an f-string, kept as its pieces)
NoDownload ==
  [kind |-> "None", success |-> FALSE, error |-> "", rate_limit_hit |-> FALSE,
   remaining_downloads |-> Absent, resets_at |-> Absent, download_url |-> Absent]
DownloadFailure(error) == [NoDownload EXCEPT !.kind = "dict", !.error = error]
RateLimitExceeded(now) ==
  [kind |-> "dict", success |-> FALSE,
   error |-> "Spotify rate limit reached (20 downloads per day)",
   rate_limit_hit |-> TRUE, remaining_downloads |-> Some(0),
   resets_at |-> Some(<<now, " 00:00:00 (next day)">>), download_url |-> Absent]
DownloadSuccess(count) ==
  [kind |-> "dict", success |-> TRUE, error |-> "", rate_limit_hit |-> FALSE,
   remaining_downloads |-> Some(IF 20 - count > 0 THEN 20 - count ELSE 0),
   resets_at |-> Absent, download_url |-> Some("/api/file/<filename>")]

\* the tracker of a process that started on day 1 with no state file, and no
\* download call made
LimiterIdle ==
  /\ today = 1
  /\ rate_limit_file = SavedFile(1, 0)
  /\ last_reset_date = 1
  /\ download_count = 0
  /\ dl_pc = "idle"
  /\ dl_result = NoDownload
  /\ http_calls = <<>>
  /\ checks = <<>>

\* no function was applied
PureIdle ==
  /\ fn = "none"
  /\ arg = NoUrl
  /\ applied = FALSE
  /\ out = Absent

(***************************************************************************)
(* POST /api/download: the request, the yt-dlp command line, the files of  *)
(* the output directory and the dicts the download returns.                *)
(***************************************************************************)
\* the requests the process serves at the same time
Requests == 1..2

\* data.get('quality', 'best'), as the pieces of the string: the ids of the
\* format lists ('720', 'bestaudio', '192', f"invidious_{qualityLabel}") and
\* the default of the route
Qualities ==
  {<<"720">>, <<"best">>, <<"bestaudio">>, <<"192">>,
   <<"invidious_", "720p">>, <<"invidious_", "1080p">>}
MediaTypes == {"video", "audio"}

\* 'invidious' in quality
HasInvidious(quality) == quality[1] = "invidious_"

\* quality in ['bestaudio', '192', '128']
AudioQuality(quality) == quality \in {<<"bestaudio">>, <<"192">>, <<"128">>}

\* a yt-dlp format selector is the sequence of its '/'-separated alternatives
HeightSelector(h) ==
  << <<"bestvideo[height<=", h, "]+bestaudio">>, <<"best[height<=", h, "]">>, <<"best">> >>
DefaultSelector == << <<"bestvideo+bestaudio">>, <<"best">> >>
quality_map ==
  [q \in {<<"2160">>, <<"1440">>, <<"1080">>, <<"720">>, <<"480">>, <<"360">>} |->
     HeightSelector(q[1])]
  @@ (<<"mp4">> :> << <<"bestvideo[ext=mp4]+bestaudio[ext=m4a]">>, <<"best[ext=mp4]">>, <<"best">> >>)
  @@ (<<"webm">> :> << <<"bestvideo[ext=webm]+bestaudio[ext=webm]">>, <<"best[ext=webm]">>, <<"best">> >>)
  @@ (<<"best">> :> DefaultSelector)
  @@ [q \in {<<"bestaudio">>, <<"192">>, <<"128">>} |-> << <<"bestaudio">> >>]

\* quality_map.get(quality, 'bestvideo+bestaudio/best')
format_spec(quality) ==
  IF quality \in DOMAIN quality_map THEN quality_map[quality] ELSE DefaultSelector

\* the command line of the fetch: the -f selector, whether -x --audio-format
\* mp3 is given, and the token of the output template '%(title)s<token>.%(ext)s'
FetchCommand(quality, media_type) ==
  IF media_type = "audio"
  THEN [f |-> << <<"bestaudio">> >>, x |-> TRUE, token |-> <<"__audio">>]
  ELSE IF AudioQuality(quality)
  THEN [f |-> << <<"bestaudio">> >>, x |-> TRUE, token |-> <<"__">> \o quality]
  ELSE [f |-> format_spec(quality), x |-> FALSE, token |-> <<"__">> \o quality]

\* the streams yt-dlp finds for a URL: video-only and audio-only streams (a
\* YouTube watch page) or streams that carry both (a TikTok video)
StreamKinds == {"video_only", "audio_only", "combined"}
MediaStreams == {{"video_only", "audio_only"}, {"combined"}}

\* yt-dlp's format selection, from its documentation: 'bestvideo+bestaudio'
\* merges a video-only and an audio-only stream, 'bestaudio' is an audio-only
\* stream ("may not be available"), 'best' is a stream with both, or any stream
\* when all streams are video-only or all are audio-only.  The [height<=H] and
\* [ext=E] filters are taken to match some stream.
AltKind(alt) ==
  IF alt = <<"bestaudio">> THEN "bestaudio"
  ELSE IF alt[1] \in {"bestvideo+bestaudio", "bestvideo[height<=",
                      "bestvideo[ext=mp4]+bestaudio[ext=m4a]",
                      "bestvideo[ext=webm]+bestaudio[ext=webm]"} THEN "merge"
  ELSE "best"
Selects(alt, streams) ==
  CASE AltKind(alt) = "merge" -> {"video_only", "audio_only"} \subseteq streams
    [] AltKind(alt) = "bestaudio" -> "audio_only" \in streams
    [] AltKind(alt) = "best" ->
         \/ "combined" \in streams
         \/ streams # {} /\ (streams \subseteq {"video_only"} \/ streams \subseteq {"audio_only"})
Satisfiable(selector, streams) == \E i \in DOMAIN selector : Selects(selector[i], streams)

\* the titles of the media, as yt-dlp prints them and as it names the files
Titles == {"My Video", "Other"}

\* a file of base_dir: the name '<stem><token>.<ext>' by its pieces, the age
\* time.time() - os.path.getmtime(path) in seconds when the locator reads it,
\* and (history) the request whose fetch wrote it, 0 for a file that was there
\* before
File(stem, token, ext, age, writer) ==
  [stem |-> stem, token |-> token, ext |-> ext, age |-> age, writer |-> writer]

\* the files the directory can hold when a request arrives: the earlier
\* download of the same video (6 and 2 minutes old), another video of the same
\* quality, a fresh file of another download, and a file named by the title
\* alone
PriorFiles ==
  { File(<<"My Video">>, <<"__", "720">>, "mp4", 400, 0),
    File(<<"Other">>, <<"__", "720">>, "mp4", 100, 0),
    File(<<"Other">>, <<"__", "192">>, "mp3", 10, 0),
    File(<<"My Video">>, <<>>, "mp4", 400, 0) }

\* the result of the fetch: TimeoutExpired, or the return code, stderr and the
\* extension of the file of a run that exited 0
FormatNotAvailable == "ERROR: Requested format is not available"
LongStderr == "ERROR: <600 characters>"
\* an error text whose first 500 characters do not reach the words 'Sign in'
LongSignIn == "ERROR: <600 characters> Sign in to confirm you are not a bot"
FetchStderrs ==
  {"", "ERROR: Sign in to confirm you are not a bot", "ERROR: Private video",
   "ERROR: Video is age restricted", "ERROR: Unable to download webpage",
   LongStderr, LongSignIn}
FetchRuns(cmd, streams) ==
  IF ~Satisfiable(cmd.f, streams)
  THEN {[timeout |-> FALSE, returncode |-> 1, stderr |-> FormatNotAvailable, ext |-> ""]}
  ELSE {[timeout |-> TRUE, returncode |-> 1, stderr |-> "", ext |-> ""]}
       \cup [timeout : {FALSE}, returncode : {1}, stderr : FetchStderrs, ext : {""}]
       \cup [timeout : {FALSE}, returncode : {0}, stderr : {""},
             ext : IF cmd.x THEN {"mp3"} ELSE {"mp4", "mkv"}]

\* result.stderr[:500]
First500(stderr) ==
  IF stderr \in {LongStderr, LongSignIn} THEN "ERROR: <500 characters>" ELSE stderr

\* str.lower() and the substring tests on the error message
SaysSignIn(error_msg) ==
  error_msg \in {"ERROR: Sign in to confirm you are not a bot", "ERROR: Private video",
                 LongSignIn}
SaysAgeRestricted(error_msg) == error_msg = "ERROR: Video is age restricted"

\* the directory after a fetch of request r that exited 0: yt-dlp writes the
\* file of the output template, unless a file of that name is there already
\* ("has already been downloaded"), which it leaves alone
Fetched(dir, r, title, cmd, ext) ==
  IF \E f \in dir : f.stem = <<title>> /\ f.token = cmd.token /\ f.ext = ext
  THEN dir
  ELSE dir \cup {File(<<title>>, cmd.token, ext, 0, r)}

\* the info run of _process_download_result (--dump-json, timeout 30)
InfoRuns(title) ==
  {[timeout |-> TRUE, returncode |-> 1, stdout |-> EmptyStdout]}
  \cup [timeout : {FALSE}, returncode : {0, 1},
        stdout : {EmptyStdout, [kind |-> "dict", title |-> Some(title), formats |-> <<>>]}]

\* filename: info_data.get('title', f'video_{platform}') of a run that exited 0
\* and printed a JSON object, f'video_{platform}' otherwise
InfoFilename(info, platform) ==
  IF info.returncode = 0 /\ info.stdout.kind = "dict" /\ info.stdout.title # Absent
  THEN info.stdout.title
  ELSE <<"video_", platform>>

\* the extensions and the suffix the locator looks for
ExpectsAudio(quality, media_type) == media_type = "audio" \/ AudioQuality(quality)
expected_extensions(quality, media_type) ==
  IF ExpectsAudio(quality, media_type)
  THEN {"mp3", "m4a", "aac", "opus", "vorbis"}
  ELSE {"mp4", "mkv", "webm", "m4a"}
quality_suffix(quality, media_type) ==
  IF ExpectsAudio(quality, media_type) /\ quality = <<"bestaudio">>
  THEN <<"__audio">>
  ELSE <<"__">> \o quality

\* quality_suffix in file: no token of the model is part of another token, of
\* a title or of an extension
SuffixIn(suffix, f) == f.token = suffix

\* s.replace(' ', '').replace('_', '').lower(), piece by piece
Squashed(piece) ==
  CASE piece = "My Video" -> "myvideo"
    [] piece = "Other" -> "other"
    [] piece = "video_" -> "video"
    [] piece \in {"__", "__audio"} -> IF piece = "__" THEN "" ELSE "audio"
    [] OTHER -> piece
Squash(pieces) == [i \in DOMAIN pieces |-> Squashed(pieces[i])]

\* squashed filename in squashed file name: the filename is a title or
\* 'video_<platform>', which is in a file name when it is in its stem
FuzzyIn(filename, f) == Squash(filename) = Squash(f.stem)

\* the files each tier of the locator accepts
Tier1(dir, quality, media_type) ==
  {f \in dir : /\ SuffixIn(quality_suffix(quality, media_type), f)
               /\ f.ext \in expected_extensions(quality, media_type)
               /\ f.age < 300}
Tier2(dir, quality, media_type, filename) ==
  {f \in dir : /\ FuzzyIn(filename, f)
               /\ f.ext \in expected_extensions(quality, media_type)
               /\ f.age < 300}
Tier3(dir, quality, media_type) ==
  {f \in dir : f.ext \in expected_extensions(quality, media_type) /\ f.age < 60}

\* the tier that finds a file, 0 when none does
FindingTier(dir, quality, media_type, filename) ==
  IF Tier1(dir, quality, media_type) # {} THEN 1
  ELSE IF Tier2(dir, quality, media_type, filename) # {} THEN 2
  ELSE IF Tier3(dir, quality, media_type) # {} THEN 3
  ELSE 0

\* found_filepath: each loop breaks at the first file os.walk lists that passes
\* its test; the order of the listing is the file system's, so any file of the
\* finding tier can be the one
FoundFiles(dir, quality, media_type, filename) ==
  CASE FindingTier(dir, quality, media_type, filename) = 1 -> Tier1(dir, quality, media_type)
    [] FindingTier(dir, quality, media_type, filename) = 2 ->
         Tier2(dir, quality, media_type, filename)
    [] FindingTier(dir, quality, media_type, filename) = 3 -> Tier3(dir, quality, media_type)
    [] OTHER -> {}

\* os.path.join(base_dir, f"{filename}{'.mp3' if media_type == 'audio' else '.mp4'}"),
\* the files of the directory with that name
DefaultPath(dir, media_type, filename) ==
  {f \in dir : /\ f.stem = filename /\ f.token = <<>>
               /\ f.ext = IF media_type = "audio" THEN "mp3" ELSE "mp4"}

\* the dicts of the download ('download_url' and 'filename' by their pieces;
\* 'filepath' is the file itself); NoResponse before the answer
NoResponse ==
  [kind |-> "None", success |-> FALSE, error |-> <<>>, need_browser_login |-> FALSE,
   message |-> Absent, filename |-> Absent, filepath |-> Absent, file_size |-> Absent,
   download_url |-> Absent]
FetchFailure(error, need_browser_login) ==
  [NoResponse EXCEPT !.kind = "dict", !.error = error,
                     !.need_browser_login = need_browser_login]
Basename(f) == f.stem \o f.token \o <<".", f.ext>>
LocalSuccess(f) ==
  [NoResponse EXCEPT !.kind = "dict", !.success = TRUE,
                     !.filename = Some(Basename(f)), !.filepath = Some(f),
                     !.file_size = Some("<size>"),
                     !.download_url = Some(<<"/api/file/">> \o Basename(f))]
\* mutant: a failure in place of the minimal success
SoftSuccess_failure(message) == FetchFailure(<<message>>, FALSE)
SoftSuccess(message) ==
  [NoResponse EXCEPT !.kind = "dict", !.success = TRUE, !.message = Some(message),
                     !.filename = Some(<<"video">>)]
DirectSuccess(stream_url) ==
  [NoResponse EXCEPT !.kind = "dict", !.success = TRUE,
                     !.download_url = Some(<<stream_url>>)]

\* the route after downloader.download_media returned: a successful result
\* with a 'filename' and no 'download_url' gets f"/api/file/{filename}"
RouteAnswer(res) ==
  IF res.success /\ res.filename # Absent /\ res.download_url = Absent
  THEN [res EXCEPT !.download_url = Some(<<"/api/file/">> \o res.filename[1])]
  ELSE res

\* a request that was not made
NoRequest ==
  [url |-> NoUrl, quality |-> <<>>, media_type |-> "", title |-> "", streams |-> {},
   resolved |-> None]

\* no download request was made and the directory is empty
DownloadIdle ==
  /\ req_pc = [r \in Requests |-> "idle"]
  /\ request = [r \in Requests |-> NoRequest]
  /\ response = [r \in Requests |-> NoResponse]
  /\ base_dir = {}
  /\ fresh = [r \in Requests |-> None]
  /\ runs = [r \in Requests |-> <<>>]
  /\ located = [r \in Requests |-> "not_run"]

\* the request threads of the process, none of them inside increment_and_check
Threads == 1..2
ThreadsIdle ==
  /\ thread_pc = [t \in Threads |-> "idle"]
  /\ started = 0
  /\ finished = 0
  /\ told_free = 0

Processes == 1..2

\* every process has built its tracker from the file and is outside the call
ProcessesIdle ==
  /\ proc_pc = [p \in Processes |-> "idle"]
  /\ proc_tracker = [p \in Processes |-> [last_reset_date |-> 1, download_count |-> 0]]

Browsers == 1..2

\* an empty session: neither key is set
NoSession == [oauth_state |-> Absent, credentials |-> Absent]
\* history of one oauth2callback call: the browser, the 'state' of the request,
\* the session's 'oauth_state' before and after, the error of the redirect,
\* whether 'credentials' was written, and whether the browser's previous
\* callback had presented the same state
NoCallback ==
  [browser |-> 0, state |-> Absent, before |-> Absent, left |-> Absent, error |-> "",
   stored |-> FALSE, replay |-> FALSE]

\* no browser has visited the sign-in routes
OAuthIdle ==
  /\ session = [b \in Browsers |-> NoSession]
  /\ issued = 0
  /\ last_cb = NoCallback

\* the names DOWNLOAD_DIR can hold: the rate-limit state file, the shared
\* credentials file and two downloads
HiddenNames == {".spotify_rate_limit.txt", ".shared_credentials.json"}
DownloadNames == {"T - artist.mp3", "My Video__720.mp4"}
FileNames == HiddenNames \cup DownloadNames

NoPass == [listed |-> {}, looked |-> {}, failed |-> {}, removed |-> {}]

\* the cleanup thread sleeps; the directory holds the two hidden files and
\* one download, all written at time 0
CleanupIdle ==
  /\ clock = 0
  /\ download_dir = [name \in FileNames |->
                       IF name \in HiddenNames \cup {"T - artist.mp3"}
                       THEN Some(0) ELSE Absent]
  /\ cleanup_pc = "sleep"
  /\ current_time = 0
  /\ todo = {}
  /\ cleanup_file = ""
  /\ passes = NoPass

Services == {"backend", "frontend", "chatbot"}

NoWatch == [exited |-> {}, stopped |-> {}, failed_start |-> ""]

\* the launcher has not been run
LauncherIdle ==
  /\ run_pc = "check"
  /\ child = [name \in Services |-> "none"]
  /\ processes = <<>>
  /\ cursor = 1
  /\ active = <<>>
  /\ returned = Absent
  /\ watch = NoWatch

ServicesIdle == ProcessesIdle /\ OAuthIdle /\ CleanupIdle /\ LauncherIdle

Init == ResolveIdle /\ LimiterIdle /\ PureIdle /\ DownloadIdle /\ ThreadsIdle /\ ServicesIdle

\* history: one outbound call, the strategy it was made in and what came back
Log(kind, inst, resp, title) ==
  calls' = Append(calls, [tier |-> tier, kind |-> kind, inst |-> inst,
                          resp |-> resp, title |-> title])

\* history: what an Invidious body carried, read off the body itself
CarriesUrl(data) ==
  \E stream \in Range(data.formatStreams) \cup Range(data.adaptiveFormats) : stream.url # ""
CarriesUsableStream(data) ==
  \/ \E stream \in Range(data.formatStreams) : stream.type = "video/mp4" /\ stream.url # ""
  \/ \E stream \in Range(data.adaptiveFormats) : stream.type = "audio" /\ stream.url # ""
BodyClass(data) ==
  IF ~data.dict THEN "nondict"
  ELSE IF CarriesUsableStream(data) THEN "usable_stream"
  ELSE IF CarriesUrl(data) THEN "url_only"
  ELSE "no_url"

\* history: what a --dump-json run came to, read off the run itself: "ok" is
\* exit code 0 with a JSON object whose title is not empty
ProbeClass(run) ==
  IF \/ run.timeout
     \/ run.returncode # 0
     \/ run.stdout.kind \in {"empty", "garbage", "nondict"}
     \/ run.stdout.title = Absent
     \/ run.stdout.title = Some("")
  THEN "fail" ELSE "ok"

(***************************************************************************)
(* get_video_info: what it does with the value a strategy returned.        *)
(***************************************************************************)
\* mutants: the source test of line 278 dropped or misspelt, the source test of
\* line 278 copied to line 285
Strategy1Resolves_anyResult(r) == r.kind # "None"
Strategy1Resolves_misspelt(r) == r.kind # "None" /\ r.source = "Invidious"
Strategy2Resolves_sourceTest(r) == r.kind # "None" /\ r.source = "invidious"

\* the tests at lines 278, 285 and 292; the value of strategy 4 is returned as is
Strategy1Resolves(r) == r.kind # "None" /\ r.source = "invidious"
Strategy2Resolves(r) == r.kind # "None"
Strategy3Resolves(r) == r.kind # "None"
Resolves(t, r) ==
  CASE t = 1 -> Strategy1Resolves(r)
    [] t = 2 -> Strategy2Resolves(r)
    [] t = 3 -> Strategy3Resolves(r)
    [] t = 4 -> TRUE

\* mutant: strategies 2 and 3 in the other order
NextCall_swapped(t) == CASE t = 1 -> "title" [] t = 2 -> "piped" [] t = 3 -> "fallback"

\* the first outbound call of the strategy that follows strategy t
NextCall(t) == CASE t = 1 -> "piped" [] t = 2 -> "title" [] t = 3 -> "fallback"

StrategyReturns(t, r) ==
  IF Resolves(t, r)
  THEN /\ pc' = "done"
       /\ result' = r
       /\ tierOut' = [tierOut EXCEPT ![t] = "returned"]
       /\ UNCHANGED <<tier, idx>>
       /\ inFallback' = FALSE
       /\ pending' = <<>>
  ELSE /\ pc' = NextCall(t)
       /\ tier' = t + 1
       /\ idx' = 1
       /\ tierOut' = [tierOut EXCEPT ![t] = IF r.kind = "None" THEN "None" ELSE "discarded",
                                      ![t + 1] = "running"]
       /\ inFallback' = FALSE
       /\ pending' = <<>>
       /\ UNCHANGED result

\* mutant: no handler in get_video_info, the exception leaves the function
StrategyRaises_unhandled(t) ==
  /\ pc' = "done"
  /\ result' = None
  /\ tierOut' = [tierOut EXCEPT ![t] = "raised"]
  /\ inFallback' = FALSE
  /\ pending' = <<>>
  /\ UNCHANGED <<tier, idx>>

\* an exception leaves the strategy and reaches the handler of get_video_info
StrategyRaises(t) ==
  /\ pc' = "done"
  /\ result' = Failure("Failed to get video info: <exception text>")
  /\ tierOut' = [tierOut EXCEPT ![t] = "raised"]
  /\ inFallback' = FALSE
  /\ pending' = <<>>
  /\ UNCHANGED <<tier, idx>>

\* _search_invidious_by_title overrides the source of a successful parse
OverrideSource(parsed_data) ==
  IF parsed_data.success THEN [parsed_data EXCEPT !.source = "invidious-search"]
  ELSE parsed_data

\* _parse_invidious_response returned r to the strategy that called it
ParseReturns(r) ==
  IF tier = 3 THEN StrategyReturns(3, OverrideSource(r)) ELSE StrategyReturns(tier, r)

(***************************************************************************)
(* The call and its first branch.                                          *)
(***************************************************************************)
get_video_info(u) ==
  /\ pc = "idle"
  /\ UNCHANGED notResolveVars
  /\ url' = u
  /\ UNCHANGED <<calls, inFallback, pending>>
  /\ IF detect_platform(u) = "youtube"
     THEN IF ~Truthy(_extract_video_id(u))
          THEN /\ pc' = "done"
               /\ result' = Failure("Invalid YouTube URL")
               /\ UNCHANGED <<video_id, tier, idx, tierOut>>
          ELSE /\ pc' = "invidious"
               /\ video_id' = _extract_video_id(u)[1]
               /\ tier' = 1
               /\ idx' = 1
               /\ tierOut' = [tierOut EXCEPT ![1] = "running"]
               /\ UNCHANGED result
     ELSE /\ pc' = IF detect_platform(u) = "spotify" THEN "spotify" ELSE "generic"
          /\ UNCHANGED <<video_id, tier, idx, tierOut, result>>

(***************************************************************************)
(* _parse_invidious_response on a body, in strategy 1 and in strategy 3.   *)
(***************************************************************************)
_parse_invidious_response(data) ==
  IF ~data.dict
  THEN \* data.get raises: the except branch calls _get_fallback_info
       /\ pc' = "fallback"
       /\ UNCHANGED <<tier, idx, tierOut, result, inFallback, pending>>
  ELSE IF InvidiousFormats(data) # <<>>
  THEN ParseReturns(Success(GetTitle(data, video_id), InvidiousFormats(data),
                            "invidious", "youtube"))
  ELSE \* no stream URL: the formats come from _get_available_formats
       /\ pc' = "formats"
       /\ pending' = GetTitle(data, video_id)
       /\ UNCHANGED <<tier, idx, tierOut, result, inFallback>>

(***************************************************************************)
(* Strategy 1: get_youtube_info_from_invidious.                            *)
(***************************************************************************)
\* the instance answers no 200, the request raises, or the body is no JSON
InvidiousFails ==
  /\ pc = "invidious"
  /\ UNCHANGED notResolveVars
  /\ Log("videos", idx, "fail", Absent)
  /\ UNCHANGED <<url, video_id>>
  /\ IF idx < NumInvidious
     THEN /\ idx' = idx + 1
          /\ UNCHANGED <<pc, tier, tierOut, result, inFallback, pending>>
     ELSE StrategyReturns(1, None)

InvidiousAnswers(data) ==
  /\ pc = "invidious"
  /\ UNCHANGED notResolveVars
  /\ Log("videos", idx, BodyClass(data), Absent)
  /\ UNCHANGED <<url, video_id>>
  /\ _parse_invidious_response(data)

(***************************************************************************)
(* Strategy 2: get_youtube_info_from_piped and _parse_piped_response.      *)
(***************************************************************************)
PipedFails ==
  /\ pc = "piped"
  /\ UNCHANGED notResolveVars
  /\ Log("streams", idx, "fail", Absent)
  /\ UNCHANGED <<url, video_id>>
  /\ IF idx < NumPiped
     THEN /\ idx' = idx + 1
          /\ UNCHANGED <<pc, tier, tierOut, result, inFallback, pending>>
     ELSE StrategyReturns(2, None)

_parse_piped_response(data) ==
  IF ~data.dict
  THEN \* the except branch returns None, which the loop returns at once
       StrategyReturns(2, None)
  ELSE /\ pc' = "formats"
       /\ pending' = GetTitle(data, video_id)
       /\ UNCHANGED <<tier, idx, tierOut, result, inFallback>>

PipedAnswers(data) ==
  /\ pc = "piped"
  /\ UNCHANGED notResolveVars
  /\ Log("streams", idx, IF data.dict THEN "ok" ELSE "nondict",
         IF data.dict THEN data.title ELSE Absent)
  /\ UNCHANGED <<url, video_id>>
  /\ _parse_piped_response(data)

(***************************************************************************)
(* _get_fallback_info and _get_available_formats: the yt-dlp runs.         *)
(***************************************************************************)
\* mutant: the title test left out
FallbackProbeOk_noTitleTest(run) ==
  ~run.timeout /\ run.returncode = 0 /\ run.stdout.kind = "dict"

\* returncode == 0 and stdout, json.loads succeeds, data.get('title') is truthy
FallbackProbeOk(run) ==
  /\ ~run.timeout
  /\ run.returncode = 0
  /\ run.stdout.kind = "dict"
  /\ Truthy(run.stdout.title)

\* the 'error' of the failure dict of _get_fallback_info
FallbackError(run) ==
  IF run.timeout THEN "Analysis timed out. The server may be under heavy load."
  ELSE IF run.returncode = 0 /\ run.stdout.kind = "nondict" THEN "<exception text>"
  ELSE IF run.stderr # "" THEN run.stderr
  ELSE "yt-dlp fallback failed to produce valid JSON output."

\* _get_fallback_info returned r: to get_video_info (strategy 4) or to the
\* except branch of _parse_invidious_response, which returns it
FallbackReturns(r) ==
  IF tier = 4 THEN StrategyReturns(4, r) ELSE ParseReturns(r)

_get_fallback_info(run) ==
  /\ pc = "fallback"
  /\ UNCHANGED notResolveVars
  /\ Log("dump-json", 0, ProbeClass(run), Absent)
  /\ UNCHANGED <<url, video_id>>
  /\ IF FallbackProbeOk(run)
     THEN /\ pc' = "formats"
          /\ inFallback' = TRUE
          /\ pending' = run.stdout.title
          /\ UNCHANGED <<tier, idx, tierOut, result>>
     ELSE FallbackReturns(Failure(FallbackError(run)))

\* the title of the dict _get_generic_platform_info builds
GenericTitle(stdout) == IF stdout.title = Absent THEN <<"Unknown Title">> ELSE stdout.title

\* _get_available_formats returned formats to the function that called it
FormatsReturn(formats) ==
  IF inFallback
  THEN FallbackReturns(Success(pending, formats, "yt-dlp-fallback", "youtube"))
  ELSE IF tier = 2
  THEN StrategyReturns(2, Success(pending, formats, "piped", "youtube"))
  ELSE IF tier = 0
  THEN /\ pc' = "done"
       /\ result' = Success(pending, formats, NoSource, detect_platform(url))
       /\ pending' = <<>>
       /\ UNCHANGED <<tier, idx, tierOut, inFallback>>
  ELSE ParseReturns(Success(pending, formats, "yt-dlp", "youtube"))

_get_available_formats(run) ==
  /\ pc = "formats"
  /\ UNCHANGED notResolveVars
  /\ Log("formats", 0, "run", Absent)
  /\ UNCHANGED <<url, video_id>>
  /\ \E formats \in AvailableFormats(run) : FormatsReturn(formats)

(***************************************************************************)
(* Strategy 3: _search_invidious_by_title.                                 *)
(***************************************************************************)
\* returncode == 0 and stdout.strip()
TitleProbeOk(run) == ~run.timeout /\ run.returncode = 0 /\ run.stdout # ""

_get_title_with_yt_dlp(run) ==
  /\ pc = "title"
  /\ UNCHANGED notResolveVars
  /\ Log("get-title", 0, "run", Absent)
  /\ UNCHANGED <<url, video_id>>
  /\ IF TitleProbeOk(run)
     THEN /\ pc' = "search"
          /\ UNCHANGED <<tier, idx, tierOut, result, inFallback, pending>>
     ELSE StrategyReturns(3, None)

\* the search loop goes on with the next instance, or ends with None
NextSearchInstance ==
  IF idx < NumInvidious
  THEN /\ pc' = "search"
       /\ idx' = idx + 1
       /\ UNCHANGED <<tier, tierOut, result, inFallback, pending>>
  ELSE StrategyReturns(3, None)

\* the search answers no 200, the request raises, or the body is no JSON
SearchFails ==
  /\ pc = "search"
  /\ UNCHANGED notResolveVars
  /\ Log("search", idx, "no_hit", Absent)
  /\ UNCHANGED <<url, video_id>>
  /\ NextSearchInstance

\* history: the body lists a video hit with the requested ID
ListsRequestedVideo(search_results) ==
  \E hit \in Range(search_results.hits) : hit = [type |-> "video", videoId |-> video_id]

SearchAnswers(search_results) ==
  /\ pc = "search"
  /\ UNCHANGED notResolveVars
  /\ Log("search", idx,
         IF ~search_results.list THEN "malformed"
         ELSE IF ListsRequestedVideo(search_results) THEN "match" ELSE "no_hit", Absent)
  /\ UNCHANGED <<url, video_id>>
  /\ IF ~search_results.list
     THEN \* AttributeError or TypeError: not among the exceptions the loop catches
          StrategyRaises(3)
     ELSE IF found_video(search_results, video_id)
     THEN /\ pc' = "detail"
          /\ UNCHANGED <<tier, idx, tierOut, result, inFallback, pending>>
     ELSE NextSearchInstance

\* the detail request answers no 200, raises, or the body is no JSON
DetailFails ==
  /\ pc = "detail"
  /\ UNCHANGED notResolveVars
  /\ Log("videos", idx, "fail", Absent)
  /\ UNCHANGED <<url, video_id>>
  /\ NextSearchInstance

DetailAnswers(data) ==
  /\ pc = "detail"
  /\ UNCHANGED notResolveVars
  /\ Log("videos", idx, BodyClass(data), Absent)
  /\ UNCHANGED <<url, video_id>>
  /\ _parse_invidious_response(data)

(***************************************************************************)
(* The other platforms: _get_generic_platform_info and _get_spotify_info.  *)
(***************************************************************************)
GenericError(run) ==
  IF run.timeout THEN "Request timed out. The <platform> content took too long to load. Please try again."
  ELSE IF run.returncode # 0
  THEN "Unable to access this <platform> content. It may be private, deleted, or require authentication."
  ELSE IF run.stdout.kind = "empty"
  THEN "Unable to access this <platform> content. It may be private or unavailable."
  ELSE IF run.stdout.kind = "garbage"
  THEN "Unable to parse <platform> content. Please try a different link."
  ELSE "Unable to access this content. Please check the URL and try again."

GenericProbeOk(run) == ~run.timeout /\ run.returncode = 0 /\ run.stdout.kind = "dict"

_get_generic_platform_info(run) ==
  /\ pc = "generic"
  /\ UNCHANGED notResolveVars
  /\ Log("dump-json", 0, "run", Absent)
  /\ UNCHANGED <<url, video_id, tier, idx, tierOut, inFallback>>
  /\ IF GenericProbeOk(run)
     THEN /\ pc' = "formats"
          /\ pending' = GenericTitle(run.stdout)
          /\ UNCHANGED result
     ELSE /\ pc' = "done"
          /\ result' = Failure(GenericError(run))
          /\ UNCHANGED pending

\* what the RapidAPI request of _get_spotify_info can come to
SpotifyOutcomes == {"no_key", "timeout", "status", "not_success", "ok"}

SpotifyFormats == << Format(<<"bestaudio">>, "audio", Some(0), UnknownSize, Absent, "") >>

SpotifyResult(outcome) ==
  CASE outcome = "no_key" ->
         Failure("Spotify not configured. Please set RAPIDAPI_KEY environment variable.")
    [] outcome = "timeout" -> Failure("Spotify API request timed out")
    [] outcome = "status" -> Failure("Failed to connect to Spotify API (Status: <status>)")
    [] outcome = "not_success" -> Failure("Failed to analyze Spotify URL: <exception text>")
    [] outcome = "ok" -> Success(<<"T", " - ", "artist">>, SpotifyFormats, NoSource, "spotify")

\* mutant: the analysis of a Spotify URL is counted as a download
_get_spotify_info_counted(outcome) ==
  /\ pc = "spotify"
  /\ UNCHANGED <<pureVars, downloadVars, threadVars, serviceVars>>
  /\ UNCHANGED <<today, rate_limit_file, last_reset_date, dl_pc, dl_result, http_calls, checks>>
  /\ download_count' = download_count + 1
  /\ IF outcome = "no_key" THEN UNCHANGED calls
     ELSE Log("downloadSong", 0, outcome, Absent)
  /\ pc' = "done"
  /\ result' = SpotifyResult(outcome)
  /\ UNCHANGED <<url, video_id, tier, idx, tierOut, inFallback, pending>>

_get_spotify_info(outcome) ==
  /\ pc = "spotify"
  /\ UNCHANGED notResolveVars
  /\ IF outcome = "no_key" THEN UNCHANGED calls
     ELSE Log("downloadSong", 0, outcome, Absent)
  /\ pc' = "done"
  /\ result' = SpotifyResult(outcome)
  /\ UNCHANGED <<url, video_id, tier, idx, tierOut, inFallback, pending>>

(***************************************************************************)
(* The specification.                                                      *)
(***************************************************************************)
\* (the inputs of a step are drawn when the step is taken)
Next ==
  \/ pc = "idle" /\ \E u \in URLs : get_video_info(u)
  \/ InvidiousFails
  \/ pc = "invidious" /\ \E data \in InvidiousBodies : InvidiousAnswers(data)
  \/ PipedFails
  \/ pc = "piped" /\ \E data \in PipedBodies : PipedAnswers(data)
  \/ pc = "title" /\ \E run \in TitleRuns : _get_title_with_yt_dlp(run)
  \/ SearchFails
  \/ pc = "search" /\ \E search_results \in SearchBodies : SearchAnswers(search_results)
  \/ DetailFails
  \/ pc = "detail" /\ \E data \in InvidiousBodies : DetailAnswers(data)
  \/ pc = "fallback" /\ \E run \in DumpRuns : _get_fallback_info(run)
  \/ pc = "formats" /\ \E run \in DumpRuns : _get_available_formats(run)
  \/ pc = "generic" /\ \E run \in DumpRuns : _get_generic_platform_info(run)
  \/ pc = "spotify" /\ \E outcome \in SpotifyOutcomes : _get_spotify_info(outcome)

Spec == Init /\ [][Next]_vars

(***************************************************************************)
(* Properties of the resolution chain.                                     *)
(***************************************************************************)
Done == pc = "done"

\* the positions of the history at which a call of one of the kinds was made
CallsOf(kinds) == {i \in DOMAIN calls : calls[i].kind \in kinds}
YtDlpKinds == {"get-title", "dump-json", "formats"}

\* the direct lookups of strategy 1, and those a mirror answered with a body
DirectLookups == {i \in CallsOf({"videos"}) : calls[i].tier = 1}
AnsweredLookups == {i \in DirectLookups : calls[i].resp # "fail"}

\* every Primary mirror was asked in strategy 1 and none answered
AllPrimaryFailed ==
  Cardinality(DirectLookups) = NumInvidious /\ AnsweredLookups = {}

\* every Secondary mirror was asked and none answered
AllSecondaryFailed ==
  /\ Cardinality(CallsOf({"streams"})) = NumPiped
  /\ \A i \in CallsOf({"streams"}) : calls[i].resp = "fail"

\* strategy 3 ran and its follow-up detail request never came back with a body
SearchFailed ==
  /\ tierOut[3] \notin {"not_run", "running"}
  /\ \A i \in CallsOf({"videos"}) : calls[i].tier = 3 => calls[i].resp = "fail"

\* C1: the calls of one resolve are made strategy by strategy, in the order
\* Invidious direct lookup (1), Piped (2), title probe and Invidious search (3),
\* yt-dlp fallback (4): the history never steps back to an earlier strategy,
\* each mirror pool is asked only in its own strategy, and the result of a
\* strategy that resolved is returned with no call of a later strategy made.
C1_TiersInOrder ==
  /\ \A i, j \in DOMAIN calls : i < j => calls[i].tier <= calls[j].tier
  /\ \A i \in DOMAIN calls :
        /\ calls[i].kind = "streams" => calls[i].tier = 2
        /\ calls[i].kind \in {"get-title", "search"} => calls[i].tier = 3
        /\ calls[i].kind = "videos" => calls[i].tier \in {1, 3}
        /\ calls[i].kind = "dump-json" => calls[i].tier \in {0, 1, 3, 4}
  /\ \A t \in 1..3 : tierOut[t + 1] # "not_run" => tierOut[t] \in {"None", "discarded"}
  /\ \A t \in 1..4 :
        tierOut[t] = "returned" =>
          /\ Done
          /\ \A i \in DOMAIN calls : calls[i].tier <= t
          /\ \A t2 \in (t + 1)..4 : tierOut[t2] = "not_run"
  /\ Done /\ result.source = "invidious" =>
        CallsOf({"streams", "search"} \cup YtDlpKinds) = {}
  /\ Done /\ result.source = "piped" => CallsOf({"search", "get-title"}) = {}

\* a resolve that went through all four strategies and resolved in the last
C1_Witness ==
  /\ Done /\ result.success /\ tierOut[4] = "returned"
  /\ CallsOf({"streams"}) # {} /\ CallsOf({"search"}) # {}

\* C2 as stated: once a Primary mirror answered with a stream that carries a
\* URL, no Piped mirror is contacted and yt-dlp is not run.
C2_AnyUrlStreamEndsResolve ==
  (\E i \in DirectLookups : calls[i].resp \in {"usable_stream", "url_only"})
  => CallsOf({"streams"} \cup YtDlpKinds) = {}

\* C2 amended: once a Primary mirror answered with a stream the parser keeps
\* (a formatStreams entry whose type contains 'video', or an adaptiveFormats
\* entry whose type is 'audio', with a non-empty URL), that answer is the last
\* call of the resolve: it returns the 'invidious' result, no Piped mirror is
\* contacted and yt-dlp is run zero times.
C2_UsableStreamEndsResolve ==
  \A i \in DirectLookups :
    calls[i].resp = "usable_stream" =>
      /\ i = Len(calls)
      /\ Done /\ result.success /\ result.source = "invidious"
      /\ tierOut = [t \in 1..4 |-> IF t = 1 THEN "returned" ELSE "not_run"]
      /\ CallsOf({"streams"} \cup YtDlpKinds) = {}

\* the second Primary mirror answers with a usable stream
C2_Witness ==
  Done /\ Len(calls) = 2 /\ calls[2].kind = "videos" /\ calls[2].resp = "usable_stream"

C4_InvalidUrlFailsAtOnce ==
  /\ pc # "idle"
  /\ detect_platform(url) = "youtube"
  /\ _extract_video_id(url) \in {Absent, Some("")}
  => /\ Done
     /\ result = Failure("Invalid YouTube URL")
     /\ calls = <<>>
     /\ \A t \in 1..4 : tierOut[t] = "not_run"

\* the call with https://youtu.be/ (its ID is the empty string)
C4_Witness ==
  Done /\ url.netloc = "youtu.be" /\ url.path = <<>> /\ ~result.success

\* C5: a result tagged 'invidious' has a non-empty format list and every
\* format of it carries a non-empty direct URL.
C5_InvidiousResultHasUrls ==
  result.kind = "dict" /\ result.source = "invidious"
  => /\ result.formats # <<>>
     /\ \A i \in DOMAIN result.formats : result.formats[i].url # ""

C5_Witness ==
  Done /\ result.success /\ result.source = "invidious" /\ Len(result.formats) >= 1

\* C6: after a Primary mirror answered HTTP 200 with a body that gives no
\* format with a direct URL, strategy 1 neither returns nor fails the resolve:
\* its value is discarded and the resolve does not end before a Piped mirror
\* was contacted.
C6_NoUrlFallsThroughToPiped ==
  (\E i \in DirectLookups : calls[i].resp \in {"no_url", "url_only", "nondict"})
  => /\ tierOut[1] \in {"running", "discarded"}
     /\ tierOut[1] = "discarded" => tierOut[2] # "not_run"
     /\ pc \in {"formats", "fallback"} /\ tier = 1 => tierOut[1] = "running"
     /\ Done => CallsOf({"streams"}) # {}

\* a Primary mirror answered without URLs and the resolve ended in strategy 2
C6_Witness ==
  /\ \E i \in DirectLookups : calls[i].resp = "no_url"
  /\ Done /\ result.source = "piped"

\* the title _parse_piped_response takes from the answer of the Piped mirror
PipedTitleOf(call) ==
  IF call.title = Absent THEN <<"Video ", video_id, "...">> ELSE call.title

\* C7: when every Primary mirror failed and a Piped mirror answered with a
\* body the parser accepts, the resolve ends with the 'piped' result: the title
\* is that of the Piped body, the formats come from one format-discovery run
\* of yt-dlp made after the answer and none of them carries a URL; the search
\* and the fallback are not attempted.
C7_PipedResolves ==
  \A i \in CallsOf({"streams"}) :
    AllPrimaryFailed /\ calls[i].resp = "ok" =>
      /\ pc \in {"formats", "done"}
      /\ pc = "formats" => i = Len(calls) /\ tier = 2
      /\ Done =>
           /\ result.success /\ result.source = "piped"
           /\ result.title = PipedTitleOf(calls[i])
           /\ result.formats # <<>>
           /\ \A k \in DOMAIN result.formats : result.formats[k].url = ""
           /\ Len(calls) = i + 1 /\ calls[i + 1].kind = "formats"
           /\ tierOut[3] = "not_run" /\ tierOut[4] = "not_run"
           /\ CallsOf({"search", "get-title", "dump-json"}) = {}

\* the second Piped mirror answered after every mirror before it failed
C7_Witness ==
  /\ Done /\ AllPrimaryFailed
  /\ \E i \in CallsOf({"streams"}) : calls[i].inst = 2 /\ calls[i].resp = "ok"
  /\ result.source = "piped" /\ result.title = <<"T">>

\* C8 as stated: a resolve in which strategy 3 ran and which did not end with
\* the successful result of strategy 3 went on to strategy 4, whose value it
\* returned.
C8_SearchFailureReachesFallback ==
  Done /\ tierOut[3] # "not_run" /\ ~(result.success /\ tierOut[3] = "returned")
  => tierOut[4] = "returned"

\* C9 as stated: the 'invidious-search' tag is returned only when a search hit
\* had the requested ID and the detail request to the same mirror gave a
\* stream the parser keeps, and every format under the tag carries a URL.
C9_SearchTagHasUrls ==
  result.source = "invidious-search"
  => /\ \E i \in CallsOf({"search"}) :
           /\ calls[i].resp = "match"
           /\ i + 1 = Len(calls)
           /\ calls[i + 1].kind = "videos"
           /\ calls[i + 1].inst = calls[i].inst
           /\ calls[i + 1].resp = "usable_stream"
     /\ result.formats # <<>>
     /\ \A k \in DOMAIN result.formats : result.formats[k].url # ""

\* the fallback probes of strategy 4
FallbackProbes == {i \in CallsOf({"dump-json"}) : calls[i].tier = 4}

\* C10: a resolve that reached strategy 4 succeeds exactly when the fallback
\* probe exited 0 with a JSON object whose title is not empty, and then with
\* the tag 'yt-dlp-fallback'; on any other outcome of the probe (non-zero
\* exit, empty or unparseable output, no title, timeout) the resolve fails and
\* no further yt-dlp run is made.
C10_FallbackResolvesIffProbeOk ==
  \A i \in FallbackProbes :
    /\ calls[i].resp = "ok" => pc \in {"formats", "done"}
    /\ calls[i].resp # "ok" => Done /\ i = Len(calls)
    /\ Done =>
         /\ result.success <=> calls[i].resp = "ok"
         /\ result.success =>
              /\ result.source = "yt-dlp-fallback"
              /\ result.title # <<>> /\ result.title # <<"">>
              /\ result.formats # <<>>
         /\ ~result.success => result.kind = "dict" /\ result.formats = <<>>

\* strategy 4 resolved
C10_Witness ==
  Done /\ FallbackProbes # {} /\ result.success /\ result.source = "yt-dlp-fallback"

\* C11 as stated: no failure returned by a resolve carries the stderr of yt-dlp
\* verbatim as its error text; a resolve in which every strategy failed
\* returns a message that is not the stderr of the probe.
C11_NoStderrInErrorText ==
  Done /\ ~result.success => \A stderr \in Stderrs \ {""} : result.error # stderr

\* the walk of one mirror pool: the requests of one kind made in one strategy
Walk(kind, t) == {i \in CallsOf({kind}) : calls[i].tier = t}
PoolSize(kind) == IF kind = "videos" THEN NumInvidious ELSE NumPiped
PoolCall(kind) == IF kind = "videos" THEN "invidious" ELSE "piped"

\* the request came to nothing on this mirror: no 200, no JSON, or a JSON body
\* on which the parser raises
MirrorFailed(call) == call.resp \in {"fail", "nondict"}

\* C12 as stated: the direct-lookup walk and the Piped walk ask the mirrors in
\* list order, each at most once; a mirror on which the request failed (timeout,
\* connection error, non-200 status, parse error) is followed by the next
\* mirror of the list, a mirror that answered with a body the parser accepts
\* is the last one asked, and a walk whose last mirror failed returns None.
C12_WalkMovesOnAfterFailure ==
  \A kind \in {"videos", "streams"} :
    LET t == IF kind = "videos" THEN 1 ELSE 2
        walk == Walk(kind, t)
    IN \A i \in walk :
         /\ calls[i].inst = Cardinality({j \in walk : j <= i})
         /\ calls[i].inst <= PoolSize(kind)
         /\ ~MirrorFailed(calls[i]) => \A j \in walk : j <= i
         /\ MirrorFailed(calls[i]) /\ calls[i].inst < PoolSize(kind) =>
              IF i = Len(calls) THEN pc = PoolCall(kind)
              ELSE /\ calls[i + 1].kind = kind
                   /\ calls[i + 1].tier = t
                   /\ calls[i + 1].inst = calls[i].inst + 1
         /\ MirrorFailed(calls[i]) /\ calls[i].inst = PoolSize(kind) =>
              tierOut[t] = "None"

(***************************************************************************)
(* _download_spotify: the rate-limit gate and the two HTTP requests of a   *)
(* Spotify download.  A step is the code up to the next outbound request.  *)
(***************************************************************************)
\* os.getenv('RAPIDAPI_KEY')
ApiKeys == {Absent, Some("key")}

\* what the request to <rapidapi_host>/downloadSong comes to: requests.Timeout,
\* another exception, a status other than 200, a body without 'success', a
\* body without 'downloadLink', or a body with the link
ApiOutcomes == {"timeout", "error", "status", "not_success", "no_link", "link"}

\* what the request of the download link comes to
FileOutcomes == {"timeout", "error", "status", "ok"}

\* the tracker as the constructor leaves it, whatever state file it found
LimiterInit ==
  /\ today = 1
  /\ \E file \in StateFiles :
       LET t == load_state(Tracker(0, 0, file), 1)
       IN /\ rate_limit_file = t.file
          /\ last_reset_date = t.last_reset_date
          /\ download_count = t.download_count
  /\ dl_pc = "idle"
  /\ dl_result = NoDownload
  /\ http_calls = <<>>
  /\ checks = <<>>

InitLimiter == ResolveIdle /\ LimiterInit /\ PureIdle /\ DownloadIdle /\ ThreadsIdle /\ ServicesIdle

\* midnight passes: datetime.now() gives the next date
NewDay ==
  /\ today < MaxDay
  /\ today' = today + 1
  /\ checks' = <<>>
  /\ UNCHANGED <<rate_limit_file, last_reset_date, download_count, dl_pc, dl_result, http_calls>>
  /\ UNCHANGED notLimiterVars

\* mutant: the gate tests the remaining count, which is never negative
GateRefuses_remainingNegative(check) == check.remaining < 0

\* 'if is_at_limit:' on the pair increment_and_check returned
GateRefuses(check) == check.is_at_limit

\* the call returned r
DownloadReturns(r) == dl_pc' = "idle" /\ dl_result' = r

\* download_media hands a URL of platform 'spotify' to _download_spotify: the
\* rate-limit check, the gate and the test of the API key
_download_spotify(u, rapidapi_key) ==
  /\ dl_pc = "idle"
  /\ detect_platform(u) = "spotify"
  /\ LET tracker == Tracker(last_reset_date, download_count, rate_limit_file)
         t == increment_and_check(tracker, today)
         check == [is_at_limit |-> is_at_limit(t.download_count),
                   remaining |-> remaining(t.download_count)]
         refused == GateRefuses(check)
     IN /\ load_state(tracker, today).download_count < MaxCount
        /\ rate_limit_file' = t.file
        /\ last_reset_date' = t.last_reset_date
        /\ download_count' = t.download_count
        /\ checks' = Append(checks, [before |-> rate_limit_file, date |-> today,
                                     after |-> t.file,
                                     is_at_limit |-> check.is_at_limit,
                                     remaining |-> check.remaining,
                                     refused |-> refused])
        /\ http_calls' = <<>>
        /\ IF refused THEN DownloadReturns(RateLimitExceeded(today))
           ELSE IF ~Truthy(rapidapi_key)
           THEN DownloadReturns(DownloadFailure("Spotify download not configured."))
           ELSE dl_pc' = "api" /\ UNCHANGED dl_result
  /\ UNCHANGED today
  /\ UNCHANGED notLimiterVars

SpotifyApiAnswers(outcome) ==
  /\ dl_pc = "api"
  /\ http_calls' = Append(http_calls, "downloadSong")
  /\ CASE outcome = "timeout" ->
            DownloadReturns(DownloadFailure("Spotify API request timed out"))
       [] outcome = "error" ->
            DownloadReturns(DownloadFailure("Failed to download Spotify track: <exception text>"))
       [] outcome = "status" ->
            DownloadReturns(DownloadFailure("Failed to connect to Spotify API (Status: <status>)"))
       [] outcome = "not_success" ->
            DownloadReturns(DownloadFailure("Spotify API error: <message>"))
       [] outcome = "no_link" ->
            DownloadReturns(DownloadFailure("Could not find download link for this Spotify track"))
       [] outcome = "link" -> dl_pc' = "file" /\ UNCHANGED dl_result
  /\ UNCHANGED <<today, rate_limit_file, last_reset_date, download_count, checks>>
  /\ UNCHANGED notLimiterVars

SpotifyFileAnswers(outcome) ==
  /\ dl_pc = "file"
  /\ http_calls' = Append(http_calls, "downloadLink")
  /\ CASE outcome = "timeout" ->
            DownloadReturns(DownloadFailure("Spotify API request timed out"))
       [] outcome = "error" ->
            DownloadReturns(DownloadFailure("Failed to download Spotify track: <exception text>"))
       [] outcome = "status" ->
            DownloadReturns(DownloadFailure("Failed to download Spotify track file"))
       [] outcome = "ok" -> DownloadReturns(DownloadSuccess(download_count))
  /\ UNCHANGED <<today, rate_limit_file, last_reset_date, download_count, checks>>
  /\ UNCHANGED notLimiterVars

NextLimiter ==
  \/ NewDay
  \/ dl_pc = "idle" /\ \E u \in URLs : \E rapidapi_key \in ApiKeys : _download_spotify(u, rapidapi_key)
  \/ dl_pc = "api" /\ \E outcome \in ApiOutcomes : SpotifyApiAnswers(outcome)
  \/ dl_pc = "file" /\ \E outcome \in FileOutcomes : SpotifyFileAnswers(outcome)

SpecLimiter == InitLimiter /\ [][NextLimiter]_vars

(***************************************************************************)
(* Properties of the rate limiter.                                         *)
(***************************************************************************)
\* the first increment_and_check call of the date found the count at 0: the
\* file said so, or the file was of an earlier date
StartsFromZero ==
  /\ checks # <<>>
  /\ \/ checks[1].before = SavedFile(checks[1].date, 0)
     \/ checks[1].before.date # checks[1].date

LastCheck == checks[Len(checks)]

C15_AtLimitMakesNoRequest ==
  checks # <<>> /\ LastCheck.is_at_limit =>
    /\ dl_pc = "idle"
    /\ http_calls = <<>>
    /\ dl_result.kind = "dict" /\ ~dl_result.success
    /\ dl_result.rate_limit_hit
    /\ dl_result.remaining_downloads = Some(0)
    /\ dl_result.resets_at # Absent

\* a download refused with the quota already at 20 of 20
C15_Witness ==
  /\ checks # <<>> /\ LastCheck.is_at_limit
  /\ LastCheck.before = SavedFile(today, 20)
  /\ dl_result.rate_limit_hit /\ http_calls = <<>>

\* C16 as stated: on a date whose count starts at 0, the first 20 Spotify
\* download calls pass the rate-limit gate and every later call is refused.
C16_FirstTwentyPass ==
  StartsFromZero => \A k \in DOMAIN checks : checks[k].refused <=> k > 20

(***************************************************************************)
(* detect_platform, _extract_video_id and _get_available_formats applied   *)
(* to one argument each.                                                   *)
(***************************************************************************)
\* longest 'formats' list of the document _get_available_formats reads
MaxRaw == 3

\* the URLs of the resolve calls and one URL for each remaining host pattern
ClassifierURLs ==
  URLs \cup
  { [netloc |-> "www.instagram.com", path |-> <<"reel">>, v |-> Absent],
    [netloc |-> "twitter.com", path |-> <<"status">>, v |-> Absent],
    [netloc |-> "x.com", path |-> <<"status">>, v |-> Absent] }

\* the --dump-json runs: those that fail, and exit code 0 with a document
\* whose 'formats' list is any list of raw entries
NormalizerRuns ==
  {run \in DumpRuns : FormatsRunFailed(run)} \cup
  { [timeout |-> FALSE, returncode |-> 0, stderr |-> "",
     stdout |-> [kind |-> "dict", title |-> Some("T"), formats |-> formats_data]] :
    formats_data \in SeqsUpTo(RawFormats, MaxRaw) }

\* the platform argument: literally 'youtube', or what detect_platform returned
Platforms == {"youtube", "tiktok", "instagram", "twitter", "spotify", "generic"}

\* user_credentials: None, or a Credentials object whose token is None, ''
\* or an access token
Tokens == {Absent, Some(""), Some("ya29.a0")}
Credentials == {Absent} \cup {Some([token |-> t]) : t \in Tokens}

\* os.getenv('RENDER')
RenderEnv == {Absent, Some("true"), Some("false")}

\* the pool random.choice draws from
user_agents ==
  { "Mozilla/5.0 (Windows NT 10.0; Win64; x64) Chrome/120.0.0.0",
    "Mozilla/5.0 (Macintosh; Intel Mac OS X 10_15_7) Chrome/120.0.0.0",
    "Mozilla/5.0 (X11; Linux x86_64) Chrome/120.0.0.0" }

\* user_credentials and user_credentials.token
HasToken(user_credentials) ==
  user_credentials # Absent /\ Truthy(user_credentials[1].token)

\* mutant: the token is sent whatever the platform
_get_yt_dlp_base_cmd_anyPlatform(user_credentials, platform, render, agent) ==
  << <<"yt-dlp">>, <<"--no-warnings">>, <<"--geo-bypass">> >>
  \o (IF platform = "youtube"
      THEN << <<"--extractor-args">>, <<"youtube:player_client=android">> >>
      ELSE <<>>)
  \o (IF HasToken(user_credentials)
      THEN << <<"--add-header">>,
              <<"Authorization: Bearer ", user_credentials[1].token[1]>> >>
      ELSE IF render # Some("true")
      THEN << <<"--cookies-from-browser">>, <<"chrome">> >>
      ELSE << <<"--user-agent">>, <<agent>> >>)

\* the command list, each argument kept as the pieces of its string; render is
\* the RENDER environment variable and agent the string random.choice drew
_get_yt_dlp_base_cmd(user_credentials, platform, render, agent) ==
  << <<"yt-dlp">>, <<"--no-warnings">>, <<"--geo-bypass">> >>
  \o (IF platform = "youtube"
      THEN << <<"--extractor-args">>, <<"youtube:player_client=android">> >>
      ELSE <<>>)
  \o (IF platform = "youtube" /\ HasToken(user_credentials)
      THEN << <<"--add-header">>,
              <<"Authorization: Bearer ", user_credentials[1].token[1]>> >>
      ELSE IF render # Some("true")
      THEN << <<"--cookies-from-browser">>, <<"chrome">> >>
      ELSE << <<"--user-agent">>, <<agent>> >>)

BaseCmdArgs ==
  [user_credentials : Credentials, platform : Platforms, render : RenderEnv]

PureInit ==
  /\ applied = FALSE
  /\ out = Absent
  /\ \/ fn = "detect_platform" /\ arg \in ClassifierURLs
     \/ fn = "_extract_video_id" /\ arg \in ClassifierURLs
     \/ fn = "_get_available_formats" /\ arg \in NormalizerRuns
     \/ fn = "_get_yt_dlp_base_cmd" /\ arg \in BaseCmdArgs

InitPure == ResolveIdle /\ LimiterIdle /\ PureInit /\ DownloadIdle /\ ThreadsIdle /\ ServicesIdle

\* the function returned value
Returns(value) ==
  /\ ~applied
  /\ applied' = TRUE
  /\ out' = value
  /\ UNCHANGED <<fn, arg>>
  /\ UNCHANGED notPureVars

ApplyDetectPlatform ==
  /\ fn = "detect_platform"
  /\ Returns(detect_platform(arg))

ApplyExtractVideoId ==
  /\ fn = "_extract_video_id"
  /\ Returns(_extract_video_id(arg))

ApplyGetAvailableFormats ==
  /\ fn = "_get_available_formats"
  /\ \E formats \in AvailableFormats(arg) : Returns(formats)

ApplyGetYtDlpBaseCmd ==
  /\ fn = "_get_yt_dlp_base_cmd"
  /\ \E agent \in user_agents :
       Returns(_get_yt_dlp_base_cmd(arg.user_credentials, arg.platform, arg.render, agent))

NextPure ==
  \/ ApplyDetectPlatform
  \/ ApplyExtractVideoId
  \/ ApplyGetAvailableFormats
  \/ ApplyGetYtDlpBaseCmd

SpecPure == InitPure /\ [][NextPure]_vars

(***************************************************************************)
(* Properties of the three functions.                                      *)
(***************************************************************************)
\* the hostname of the URL contains the pattern, compared without case
HostMatches(u, pat) == Has(Lower(u.netloc), pat)

\* the tag of the platform whose pattern the hostname matches
HostPlatform(u) ==
  IF HostMatches(u, "youtube.com") \/ HostMatches(u, "youtu.be") THEN "youtube"
  ELSE IF HostMatches(u, "tiktok.com") THEN "tiktok"
  ELSE IF HostMatches(u, "instagram.com") THEN "instagram"
  ELSE IF HostMatches(u, "twitter.com") \/ HostMatches(u, "x.com") THEN "twitter"
  ELSE IF HostMatches(u, "spotify.com") THEN "spotify"
  ELSE "generic"

\* C17 as stated: detect_platform returns the tag of the platform whose
\* pattern the hostname of the URL matches (case-insensitively), and 'generic'
\* for every URL whose hostname matches no pattern.
C17_HostnameDecidesPlatform ==
  fn = "detect_platform" /\ applied => out = HostPlatform(arg)

\* the video ID of the three YouTube URL shapes, Absent for any other URL
ShapeId(u) ==
  IF HostMatches(u, "youtube.com") /\ u.path = <<"watch">> /\ u.v # Absent THEN u.v
  ELSE IF HostMatches(u, "youtu.be") /\ Len(u.path) = 1 THEN Some(u.path[1])
  ELSE IF HostMatches(u, "youtube.com") /\ Len(u.path) = 2 /\ u.path[1] = "shorts"
       THEN Some(u.path[2])
  ELSE Absent

\* C18 as stated: _extract_video_id returns the ID of a youtube.com/watch?v=ID,
\* youtu.be/ID or youtube.com/shorts/ID URL and None for a URL of no such shape.
C18_IdOfEveryShape ==
  fn = "_extract_video_id" /\ applied => out = ShapeId(arg)

\* _get_available_formats read a document: the run exited 0 with a JSON object
Normalized ==
  /\ fn = "_get_available_formats" /\ applied
  /\ ~arg.timeout /\ arg.returncode = 0 /\ arg.stdout.kind = "dict"

\* the raw video entries of a 'formats' list and their (height, container) pairs
RawVideoEntries(raw) == {f \in Range(raw) : f.vcodec # "none" /\ f.height # 0}
RawAudioEntries(raw) == {f \in Range(raw) : f.vcodec = "none" /\ f.acodec # "none"}
RawPairs(raw) == {<<f.height, f.ext>> : f \in RawVideoEntries(raw)}
LargestSize(raw, pair) ==
  Max({f.filesize : f \in {g \in RawVideoEntries(raw) : <<g.height, g.ext>> = pair}})

\* a size as the list shows it: a byte count, 'Unknown' when no size is known
ShownSize(n) == IF n > 0 THEN Bytes(n) ELSE UnknownSize

\* the entries of the returned list for a (height, container) pair
EntriesOf(formats, pair) ==
  {i \in DOMAIN formats : /\ formats[i].type = "video"
                          /\ formats[i].height = Some(pair[1])
                          /\ formats[i].container = Some(pair[2])}

\* the heights _get_available_formats offers
QualityHeights == {2160, 1440, 1080, 720, 480, 360}

\* C19 as stated: the returned list has exactly one entry for every (height,
\* container) pair of the raw video entries, with the largest size seen for it.
C19_OneEntryPerPair ==
  Normalized =>
    \A pair \in RawPairs(arg.stdout.formats) :
      /\ Cardinality(EntriesOf(out, pair)) = 1
      /\ \A i \in EntriesOf(out, pair) :
           out[i].filesize = ShownSize(LargestSize(arg.stdout.formats, pair))

\* C19 amended: for every (height, container) pair of the raw video entries
\* the returned list has exactly one entry when the height is one of the six
\* offered heights (2160, 1440, 1080, 720, 480, 360) and none otherwise; the
\* entry's size is the largest size seen for the pair ('Unknown' when no size
\* is known); and every entry of the list with a height is the entry of such
\* a pair.
C19_OneEntryPerOfferedPair ==
  Normalized =>
    LET raw == arg.stdout.formats
    IN /\ \A pair \in RawPairs(raw) :
            /\ Cardinality(EntriesOf(out, pair)) =
                 IF pair[1] \in QualityHeights THEN 1 ELSE 0
            /\ \A i \in EntriesOf(out, pair) :
                 out[i].filesize = ShownSize(LargestSize(raw, pair))
       /\ RawPairs(raw) # {} =>
            \A i \in DOMAIN out :
              out[i].type = "video" /\ out[i].height # Some(0) =>
                <<out[i].height[1], out[i].container[1]>> \in RawPairs(raw)

\* two raw entries of one pair, the larger one first, and the entry kept for them
C19_Witness ==
  /\ Normalized
  /\ \E i, j \in DOMAIN arg.stdout.formats :
       LET f == arg.stdout.formats[i]
           g == arg.stdout.formats[j]
       IN /\ i < j /\ f.filesize > g.filesize
          /\ {f, g} \subseteq RawVideoEntries(arg.stdout.formats)
          /\ f.height = g.height /\ f.ext = g.ext
          /\ \E k \in EntriesOf(out, <<f.height, f.ext>>) : out[k].filesize = Bytes(f.filesize)

\* the run gives no usable entry: it failed, printed no JSON object, or no raw
\* entry is a video entry with a height or an audio-only entry
NoUsableEntry(run) ==
  \/ run.timeout \/ run.returncode # 0 \/ run.stdout.kind # "dict"
  \/ RawVideoEntries(run.stdout.formats) \cup RawAudioEntries(run.stdout.formats) = {}

\* C20 as stated: when the run gives no usable entry, _get_available_formats
\* returns the empty list.
C20_NoEntriesGivesEmptyList ==
  fn = "_get_available_formats" /\ applied /\ NoUsableEntry(arg) => out = <<>>

(***************************************************************************)
(* Claims about the format list of a resolve result.                       *)
(***************************************************************************)
\* no two entries of the list carry the same format_id
DistinctFormatIds(formats) ==
  \A i, j \in DOMAIN formats : formats[i].format_id = formats[j].format_id => i = j

\* C21 as stated: within the format list of a successful resolve result the
\* format_id values are pairwise distinct, whichever source produced the list.
C21_FormatIdsDistinct ==
  Done /\ result.success => DistinctFormatIds(result.formats)

(***************************************************************************)
(* POST /api/download: the route download_media, the re-analysis of an     *)
(* Invidious quality, and the yt-dlp branch of                             *)
(* InvidiousDownloader.download_media (_download_with_yt_dlp and           *)
(* _process_download_result).  The Spotify branch is _download_spotify of  *)
(* SpecLimiter.  One step per outbound call: the walk over the Invidious   *)
(* mirrors (one step, with the body of the first mirror that answers), the *)
(* fetch, and the info run with the scan of the directory.                 *)
(***************************************************************************)
\* the URLs of the download requests
DownloadURLs ==
  {u \in URLs : \/ u.netloc = "www.youtube.com" /\ u.path = <<"watch">>
                \/ u.netloc = "www.tiktok.com"}

\* the MediaInfo the client got from /api/analyze before it asks for the
\* download: none, or the result of an Invidious mirror that offered one stream
AnalyzedBody ==
  [dict |-> TRUE, title |-> Some("T"),
   formatStreams |-> <<[type |-> "video/mp4", url |-> "https://cdn/u", label |-> "720p"]>>,
   adaptiveFormats |-> <<>>]
ResolvedInfos(u) ==
  {None} \cup
  (IF detect_platform(u) = "youtube" /\ Truthy(_extract_video_id(u))
   THEN {Success(GetTitle(AnalyzedBody, _extract_video_id(u)[1]),
                 InvidiousFormats(AnalyzedBody), "invidious", "youtube")}
   ELSE {})

\* history: yt-dlp subprocess runs made for request r
Ran(r, kinds) == runs' = [runs EXCEPT ![r] = @ \o kinds]

\* the route answers request r
Answers(r, res) ==
  /\ req_pc' = [req_pc EXCEPT ![r] = "done"]
  /\ response' = [response EXCEPT ![r] = res]

\* the route reads the request; an Invidious quality on a URL with a video id
\* is re-analysed, every other request goes to downloader.download_media
download_media(r, u, quality, media_type, title, streams, resolved) ==
  /\ req_pc[r] = "idle"
  /\ UNCHANGED notDownloadVars
  /\ detect_platform(u) # "spotify"
  /\ request' = [request EXCEPT ![r] =
       [url |-> u, quality |-> quality, media_type |-> media_type,
        title |-> title, streams |-> streams, resolved |-> resolved]]
  /\ req_pc' = [req_pc EXCEPT ![r] =
       IF HasInvidious(quality) /\ Truthy(_extract_video_id(u))
       THEN "invidious" ELSE "fetch"]
  /\ UNCHANGED <<response, base_dir, fresh, runs, located>>

\* what get_youtube_info_from_invidious returns to the route, as far as the
\* route reads it: None when every mirror failed; the 'invidious' result of a
\* body with a stream URL; for any other body a result of another source (or a
\* failure), kept by its source alone
ReAnalysis(answer, video) ==
  IF answer = Absent THEN None
  ELSE IF answer[1].dict /\ InvidiousFormats(answer[1]) # <<>>
  THEN Success(GetTitle(answer[1], video), InvidiousFormats(answer[1]), "invidious", "youtube")
  ELSE IF answer[1].dict THEN Success(<<>>, <<>>, "yt-dlp", "youtube")
  ELSE Success(<<>>, <<>>, "yt-dlp-fallback", "youtube")

\* the yt-dlp runs inside the re-analysis: none when a mirror gave a stream URL
\* or every mirror failed, _get_available_formats for a body with no stream
\* URL, _get_fallback_info (and _get_available_formats when its probe
\* succeeded) for a body that is no object
ReAnalysisRuns(answer, probe_ok) ==
  IF answer = Absent THEN <<>>
  ELSE IF ~answer[1].dict THEN IF probe_ok THEN <<"dump-json", "formats">> ELSE <<"dump-json">>
  ELSE IF InvidiousFormats(answer[1]) = <<>> THEN <<"formats">>
  ELSE <<>>

\* mutant: the first format of the list, whatever its format_id
SelectedFormat_anyId(formats, quality) ==
  IF formats = <<>> THEN Absent ELSE Some(formats[1])

\* next((f for f in formats if f.get('format_id') == quality), None)
SelectedFormat(formats, quality) ==
  LET matching == {i \in DOMAIN formats : formats[i].format_id = quality}
  IN IF matching = {} THEN Absent
     ELSE Some(formats[CHOOSE i \in matching : \A j \in matching : i <= j])

\* invidious_info and source == 'invidious' and selected_format and its 'url'
DirectFormat(info, quality) ==
  IF info # None /\ info.source = "invidious"
     /\ SelectedFormat(info.formats, quality) # Absent
     /\ SelectedFormat(info.formats, quality)[1].url # ""
  THEN SelectedFormat(info.formats, quality)
  ELSE Absent

get_youtube_info_from_invidious(r, answer, probe_ok) ==
  /\ req_pc[r] = "invidious"
  /\ UNCHANGED notDownloadVars
  /\ LET info == ReAnalysis(answer, _extract_video_id(request[r].url)[1])
         direct == DirectFormat(info, request[r].quality)
     IN /\ fresh' = [fresh EXCEPT ![r] = info]
        /\ Ran(r, ReAnalysisRuns(answer, probe_ok))
        /\ IF direct # Absent
           THEN Answers(r, DirectSuccess(direct[1].url))
           ELSE /\ req_pc' = [req_pc EXCEPT ![r] = "fetch"]
                /\ UNCHANGED response
  /\ UNCHANGED <<request, base_dir, located>>

\* the dict _download_with_yt_dlp returns for a fetch that did not exit 0
\* mutant: the special handling applied to every platform
FetchError_anyPlatform(run, platform) ==
  LET error_msg == IF run.stderr # "" THEN First500(run.stderr) ELSE "Unknown error"
  IN IF run.timeout THEN FetchFailure(<<"Download timed out (>10 minutes)">>, FALSE)
     ELSE IF SaysSignIn(error_msg)
     THEN FetchFailure(<<"This YouTube video requires authentication. Please make sure you are signed into YouTube in your browser.">>, TRUE)
     ELSE IF SaysAgeRestricted(error_msg)
     THEN FetchFailure(<<"This YouTube video is age-restricted. Please sign into YouTube in your browser to access it.">>, TRUE)
     ELSE FetchFailure(<<"Download failed: ", error_msg>>, FALSE)

FetchError(run, platform) ==
  LET error_msg == IF run.stderr # "" THEN First500(run.stderr) ELSE "Unknown error"
  IN IF run.timeout THEN FetchFailure(<<"Download timed out (>10 minutes)">>, FALSE)
     ELSE IF platform = "youtube" /\ SaysSignIn(error_msg)
     THEN FetchFailure(<<"This YouTube video requires authentication. Please make sure you are signed into YouTube in your browser.">>, TRUE)
     ELSE IF platform = "youtube" /\ SaysAgeRestricted(error_msg)
     THEN FetchFailure(<<"This YouTube video is age-restricted. Please sign into YouTube in your browser to access it.">>, TRUE)
     ELSE FetchFailure(<<"Download failed: ", error_msg>>, FALSE)

\* every result a fetch can have
AllFetchRuns ==
  UNION {FetchRuns(FetchCommand(q, m), s) : q \in Qualities, m \in MediaTypes, s \in MediaStreams}

\* downloader.download_media on a URL that is not Spotify's: the fetch
_download_with_yt_dlp(r, run) ==
  /\ req_pc[r] = "fetch"
  /\ UNCHANGED notDownloadVars
  /\ LET req == request[r]
         cmd == FetchCommand(req.quality, req.media_type)
     IN /\ run \in FetchRuns(cmd, req.streams)
        /\ Ran(r, <<"fetch">>)
        /\ IF ~run.timeout /\ run.returncode = 0
           THEN /\ base_dir' = Fetched(base_dir, r, req.title, cmd, run.ext)
                /\ req_pc' = [req_pc EXCEPT ![r] = "info"]
                /\ UNCHANGED response
           ELSE /\ Answers(r, RouteAnswer(FetchError(run, detect_platform(req.url))))
                /\ UNCHANGED base_dir
  /\ UNCHANGED <<request, fresh, located>>

\* no file: the scan found none and the default path does not exist
NoFile == File(<<>>, <<>>, "", 0, 0)

\* the file _process_download_result reports: one the locator can find, else
\* the file at the default path, else none
ReportedFiles(dir, quality, media_type, filename) ==
  IF FoundFiles(dir, quality, media_type, filename) # {}
  THEN FoundFiles(dir, quality, media_type, filename)
  ELSE IF DefaultPath(dir, media_type, filename) # {}
  THEN DefaultPath(dir, media_type, filename)
  ELSE {NoFile}

\* the route answers request r with the result for the file f
Reports(r, f, how) ==
  /\ located' = [located EXCEPT ![r] = how]
  /\ Answers(r, RouteAnswer(IF f = NoFile THEN SoftSuccess("Download completed")
                            ELSE LocalSuccess(f)))

\* the fetch exited 0: the info run, the scan of the directory and the result
_process_download_result(r, info) ==
  /\ req_pc[r] = "info"
  /\ UNCHANGED notDownloadVars
  /\ info \in InfoRuns(request[r].title)
  /\ Ran(r, <<"info">>)
  /\ LET req == request[r]
         filename == InfoFilename(info, detect_platform(req.url))
     IN IF info.timeout
        THEN \* TimeoutExpired is caught by the except branch of the function
             /\ located' = [located EXCEPT ![r] = "raised"]
             /\ Answers(r, RouteAnswer(SoftSuccess("Download completed successfully")))
        ELSE \E f \in ReportedFiles(base_dir, req.quality, req.media_type, filename) :
               Reports(r, f,
                 IF f = NoFile THEN "missing"
                 ELSE IF f.age < 300 /\ f.token = quality_suffix(req.quality, req.media_type)
                 THEN "suffix"
                 ELSE IF f.age < 300 /\ f.stem = filename THEN "title"
                 ELSE IF f.age < 60 THEN "recent"
                 ELSE "default")
  /\ UNCHANGED <<request, base_dir, fresh>>

\* the directory when one request arrives: any of the earlier files
DownloadInit ==
  /\ req_pc = [r \in Requests |-> "idle"]
  /\ request = [r \in Requests |-> NoRequest]
  /\ response = [r \in Requests |-> NoResponse]
  /\ base_dir \in SUBSET PriorFiles
  /\ fresh = [r \in Requests |-> None]
  /\ runs = [r \in Requests |-> <<>>]
  /\ located = [r \in Requests |-> "not_run"]

InitDownload == ResolveIdle /\ LimiterIdle /\ PureIdle /\ DownloadInit /\ ThreadsIdle /\ ServicesIdle

\* one request, for the video "My Video"
NextDownload ==
  \/ req_pc[1] = "idle" /\
       \E u \in DownloadURLs, quality \in Qualities, media_type \in MediaTypes,
          streams \in MediaStreams :
         \E resolved \in ResolvedInfos(u) :
           download_media(1, u, quality, media_type, "My Video", streams, resolved)
  \/ req_pc[1] = "invidious" /\
       \E answer \in {Absent} \cup {Some(d) : d \in InvidiousBodies}, probe_ok \in BOOLEAN :
         get_youtube_info_from_invidious(1, answer, probe_ok)
  \/ req_pc[1] = "fetch" /\ \E run \in AllFetchRuns : _download_with_yt_dlp(1, run)
  \/ req_pc[1] = "info" /\ \E info \in InfoRuns("My Video") : _process_download_result(1, info)

SpecDownload == InitDownload /\ [][NextDownload]_vars

(***************************************************************************)
(* Claims about the end of a resolve call (Spec).                          *)
(***************************************************************************)
\* the most outbound calls of one get_video_info call: the pool walk of
\* strategy 1 with the fallback probe and format discovery for a body that is
\* no object, the pool walk of strategy 2, the title probe with a search and a
\* detail request per mirror, the fallback probe of strategy 4 and its format
\* discovery
MaxCalls == 3 * NumInvidious + NumPiped + 5

\* the call the code is about to make can be made and comes back
NextCallEnabled ==
  CASE pc = "invidious" -> ENABLED InvidiousFails
    [] pc = "piped" -> ENABLED PipedFails
    [] pc = "title" -> ENABLED (\E run \in TitleRuns : _get_title_with_yt_dlp(run))
    [] pc = "search" -> ENABLED SearchFails
    [] pc = "detail" -> ENABLED DetailFails
    [] pc = "fallback" -> ENABLED (\E run \in DumpRuns : _get_fallback_info(run))
    [] pc = "formats" ->
         ENABLED (\E run \in DumpRuns : _get_available_formats(run))
    [] pc = "generic" -> ENABLED (\E run \in DumpRuns : _get_generic_platform_info(run))
    [] pc = "spotify" -> ENABLED (\E outcome \in SpotifyOutcomes : _get_spotify_info(outcome))
    [] OTHER -> pc \in {"idle", "done"}

\* no mirror gets the same request twice in one strategy
OncePerWalk ==
  \A i, j \in DOMAIN calls :
    /\ calls[i].inst # 0
    /\ calls[i].tier = calls[j].tier
    /\ calls[i].kind = calls[j].kind
    /\ calls[i].inst = calls[j].inst
    => i = j

Answered(r) == req_pc[r] = "done"

\* the answer carries a remote URL: a 'download_url' that is no /api/file/ path
RemoteUrl(res) == res.download_url # Absent /\ res.download_url[1][1] # "/api/file/"
\* the answer carries the path of a local file
LocalPath(res) == res.filepath # Absent

\* the formats of the re-analysis whose format_id is the requested quality
FreshMatches(r) ==
  IF fresh[r] = None THEN {}
  ELSE {i \in DOMAIN fresh[r].formats : fresh[r].formats[i].format_id = request[r].quality}
\* the mirrors gave, at download time, an 'invidious' result with such a format
FreshDirect(r) == fresh[r] # None /\ fresh[r].source = "invidious" /\ FreshMatches(r) # {}

\* the formats of the MediaInfo the client holds whose format_id is the
\* requested quality
ResolvedMatches(r) ==
  IF request[r].resolved = None THEN {}
  ELSE {i \in DOMAIN request[r].resolved.formats :
          request[r].resolved.formats[i].format_id = request[r].quality}
ResolvedDirect(r) ==
  /\ request[r].resolved # None
  /\ request[r].resolved.source = "invidious"
  /\ Cardinality(ResolvedMatches(r)) = 1

\* C22 as stated: a download of media that was resolved with source
\* 'invidious', for a quality that is the format_id of exactly one of its
\* formats, answers with that format's URL as the remote URL and runs yt-dlp
\* zero times.
C22_ResolvedDirectNeedsNoTool ==
  \A r \in Requests :
    Answered(r) /\ ResolvedDirect(r) =>
      /\ \E i \in ResolvedMatches(r) :
           response[r] = DirectSuccess(request[r].resolved.formats[i].url)
      /\ runs[r] = <<>>

\* C22, amended: the route re-analyses the video at download time.  When that
\* re-analysis has source 'invidious' and holds a format whose format_id is the
\* requested quality, the answer is the URL of the first such format as the
\* remote URL and yt-dlp is run zero times; in every other case the answer
\* carries no remote URL.
C22_FreshDirectNeedsNoTool ==
  \A r \in Requests :
    Answered(r) =>
      /\ FreshDirect(r) =>
           LET first == CHOOSE i \in FreshMatches(r) : \A j \in FreshMatches(r) : i <= j
           IN /\ response[r] = DirectSuccess(fresh[r].formats[first].url)
              /\ runs[r] = <<>>
      /\ RemoteUrl(response[r]) => FreshDirect(r)

\* a request for a quality of the resolved MediaInfo, answered with the stream
\* URL of the re-analysis
C22_Witness ==
  /\ Answered(1) /\ ResolvedDirect(1) /\ FreshDirect(1)
  /\ RemoteUrl(response[1]) /\ runs[1] = <<>>

\* C23 as stated: quality matching is never the cause of a download failure:
\* whatever the requested quality, the download of a media that has streams
\* does not end with yt-dlp's "Requested format is not available".
C23_QualityNeverFails ==
  \A r \in Requests :
    Answered(r) /\ request[r].streams # {} =>
      response[r].error # <<"Download failed: ", FormatNotAvailable>>

\* the fetch of request r exited 0: _process_download_result ran
FetchExitedZero(r) == \E i \in DOMAIN runs[r] : runs[r][i] = "info"

\* C24: when the fetch exits 0 and the locator finds no file (no tier finds one
\* and the default path does not exist), or locating raises, the answer is
\* success = true with the minimal body ('message', 'filename': 'video') and no
\* file size; an answer after a fetch that exited 0 is never a failure.
C24_MissingFileIsSoftSuccess ==
  \A r \in Requests :
    Answered(r) =>
      /\ located[r] \in {"missing", "raised"} =>
           /\ response[r].success
           /\ response[r].file_size = Absent /\ response[r].filepath = Absent
           /\ response[r].message # Absent
           /\ response[r].filename = Some(<<"video">>)
      /\ FetchExitedZero(r) => response[r].success

\* the fetch found the file of an earlier download in place (older than five
\* minutes) and wrote nothing, and the locator found no file
C24_Witness ==
  /\ Answered(1) /\ located[1] = "missing" /\ response[1].success
  /\ \E f \in base_dir : f.stem = <<request[1].title>> /\ f.age >= 300

\* C27 as stated: a single download call runs the extraction tool at most
\* once.
C27_AtMostOneToolRun == \A r \in Requests : Len(runs[r]) <= 1

\* C28 as stated: every answer with success = true carries exactly one of a
\* remote URL and a local file path, never both and never neither.
C28_ExactlyOneOfUrlAndPath ==
  \A r \in Requests :
    Answered(r) /\ response[r].success =>
      (RemoteUrl(response[r]) <=> ~LocalPath(response[r]))

\* C30 as stated: the locator applies its tiers in order, consults a later tier
\* only when the suffix tier found nothing, and within the suffix tier and the
\* last tier returns the most recently modified file that passes the tier.
C30_TiersInOrderMostRecent ==
  \A r \in Requests :
    Answered(r) /\ located[r] \in {"suffix", "title", "recent"} =>
      LET f == response[r].filepath[1]
          tier1 == Tier1(base_dir, request[r].quality, request[r].media_type)
          tier3 == Tier3(base_dir, request[r].quality, request[r].media_type)
      IN /\ located[r] = "suffix" => f \in tier1 /\ \A g \in tier1 : f.age <= g.age
         /\ located[r] # "suffix" => tier1 = {}
         /\ located[r] = "recent" => f \in tier3 /\ \A g \in tier3 : f.age <= g.age

(***************************************************************************)
(* Two POST /api/download requests served at the same time (SpecRace): the *)
(* steps of SpecDownload, interleaved, on one output directory that starts *)
(* empty.  Both requests ask for the 720p video of a YouTube URL.          *)
(***************************************************************************)
RaceURL == CHOOSE u \in DownloadURLs : u.netloc = "www.youtube.com" /\ u.v # Absent

InitRace == ResolveIdle /\ LimiterIdle /\ PureIdle /\ DownloadIdle /\ ThreadsIdle /\ ServicesIdle

NextRace ==
  \/ \E r \in Requests, title \in Titles :
       download_media(r, RaceURL, <<"720">>, "video", title,
                      {"video_only", "audio_only"}, None)
  \/ \E r \in Requests :
       req_pc[r] = "fetch" /\ \E run \in AllFetchRuns : _download_with_yt_dlp(r, run)
  \/ \E r \in Requests :
       req_pc[r] = "info" /\ \E info \in InfoRuns(request[r].title) :
                               _process_download_result(r, info)

SpecRace == InitRace /\ [][NextRace]_vars

\* C25 as stated: with two download calls running at the same time on the
\* shared directory, for two different videos, the file each answer names is
\* the file its own fetch wrote, whatever the interleaving.
C25_EachCallNamesItsOwnFile ==
  request[1].title # request[2].title =>
    \A r \in Requests :
      Answered(r) /\ LocalPath(response[r]) => response[r].filepath[1].writer = r

(***************************************************************************)
(* increment_and_check called by request threads of one process            *)
(* (SpecThreads).  The tracker is one module-level object and the method   *)
(* takes no lock: a thread can be switched out between its statements (the *)
(* file operations of load_state and save_state release the interpreter    *)
(* lock).  One step per statement of lines 192-199; all calls are made on  *)
(* the date of the start, with the counter at 0.                           *)
(***************************************************************************)
\* the tracker object and its file, as the threads share them
SharedTracker == Tracker(last_reset_date, download_count, rate_limit_file)
Shares(t) ==
  /\ last_reset_date' = t.last_reset_date
  /\ download_count' = t.download_count
  /\ rate_limit_file' = t.file

\* what a statement of a thread leaves alone
ThreadFrame ==
  UNCHANGED <<resolveVars, pureVars, downloadVars, serviceVars,
              today, dl_pc, dl_result, http_calls, checks>>

\* line 192: self.load_state()
ThreadLoadsState(t) ==
  /\ thread_pc[t] = "idle"
  /\ ThreadFrame
  /\ started < MaxCount
  /\ started' = started + 1
  /\ Shares(load_state(SharedTracker, today))
  /\ thread_pc' = [thread_pc EXCEPT ![t] = "increment"]
  /\ UNCHANGED <<finished, told_free>>

\* line 193: self.download_count += 1
ThreadIncrements(t) ==
  /\ thread_pc[t] = "increment"
  /\ ThreadFrame
  /\ download_count' = download_count + 1
  /\ thread_pc' = [thread_pc EXCEPT ![t] = "save"]
  /\ UNCHANGED <<last_reset_date, rate_limit_file, started, finished, told_free>>

\* line 194: self.save_state()
ThreadSavesState(t) ==
  /\ thread_pc[t] = "save"
  /\ ThreadFrame
  /\ Shares(save_state(SharedTracker))
  /\ thread_pc' = [thread_pc EXCEPT ![t] = "return"]
  /\ UNCHANGED <<started, finished, told_free>>

\* lines 196-199: the two values are computed from self.download_count
ThreadReturns(t) ==
  /\ thread_pc[t] = "return"
  /\ ThreadFrame
  /\ finished' = finished + 1
  /\ told_free' = IF is_at_limit(download_count) THEN told_free ELSE told_free + 1
  /\ thread_pc' = [thread_pc EXCEPT ![t] = "idle"]
  /\ UNCHANGED <<last_reset_date, download_count, rate_limit_file, started>>

InitThreads == ResolveIdle /\ LimiterIdle /\ PureIdle /\ DownloadIdle /\ ThreadsIdle /\ ServicesIdle

NextThreads ==
  \/ \E t \in Threads : ThreadLoadsState(t)
  \/ \E t \in Threads : ThreadIncrements(t)
  \/ \E t \in Threads : ThreadSavesState(t)
  \/ \E t \in Threads : ThreadReturns(t)

SpecThreads == InitThreads /\ [][NextThreads]_vars

\* no thread is inside increment_and_check
Quiescent == \A t \in Threads : thread_pc[t] = "idle"

\* C26 as stated: for every interleaving of increment_and_check calls of one
\* process on one date, no increment is lost: starting from 0, once n calls
\* have completed the persisted count is n, and at most 19 callers were told
\* is_at_limit = False.
C26_NoIncrementLost ==
  Quiescent =>
    /\ rate_limit_file = SavedFile(today, finished)
    /\ told_free <= limit_per_day - 1

(***************************************************************************)
(* _get_yt_dlp_base_cmd: the arguments every yt-dlp command starts with.   *)
(***************************************************************************)
BuiltBaseCmd == fn = "_get_yt_dlp_base_cmd" /\ applied

\* position p of the returned command holds the option and p + 1 its value
HasOption(cmd, option, value) ==
  \E p \in 1..(Len(cmd) - 1) : cmd[p] = <<option>> /\ cmd[p + 1] = value
HasFlag(cmd, flag) == \E p \in DOMAIN cmd : cmd[p] = <<flag>>

CarriesBearer(cmd, user_credentials) ==
  /\ user_credentials # Absent
  /\ user_credentials[1].token # Absent
  /\ HasOption(cmd, "--add-header",
               <<"Authorization: Bearer ", user_credentials[1].token[1]>>)
CarriesPoolAgent(cmd) == \E agent \in user_agents : HasOption(cmd, "--user-agent", <<agent>>)
CarriesCookies(cmd) == HasOption(cmd, "--cookies-from-browser", <<"chrome">>)

\* C31 as stated: the command carries the Authorization: Bearer header whenever
\* a credential with a token is supplied, otherwise a User-Agent of the fixed
\* pool, and the geo-bypass flag in every case
C31_BearerOrPoolAgent ==
  BuiltBaseCmd =>
    /\ HasFlag(out, "--geo-bypass")
    /\ IF HasToken(arg.user_credentials)
       THEN CarriesBearer(out, arg.user_credentials)
       ELSE CarriesPoolAgent(out)

\* C31 amended: every command holds the geo-bypass flag and exactly one of the
\* three: the Authorization: Bearer header with the token, exactly when the
\* platform is 'youtube' and a credential with a non-empty token is supplied;
\* otherwise the cookies of the local browser when RENDER is not 'true';
\* otherwise a User-Agent of the fixed pool
C31_BearerCookiesOrPoolAgent ==
  BuiltBaseCmd =>
    LET bearer == arg.platform = "youtube" /\ HasToken(arg.user_credentials)
        cookies == ~bearer /\ arg.render # Some("true")
    IN /\ HasFlag(out, "--geo-bypass")
       /\ HasFlag(out, "--add-header") <=> bearer
       /\ bearer => CarriesBearer(out, arg.user_credentials)
       /\ HasFlag(out, "--cookies-from-browser") <=> cookies
       /\ cookies => CarriesCookies(out)
       /\ HasFlag(out, "--user-agent") <=> (~bearer /\ ~cookies)
       /\ (~bearer /\ ~cookies) => CarriesPoolAgent(out)

\* a command with the header, one with the cookies and one with a User-Agent
\* were built: here the one built on Render for a credential of another platform
C31_Witness ==
  /\ BuiltBaseCmd
  /\ HasToken(arg.user_credentials)
  /\ arg.platform = "tiktok"
  /\ arg.render = Some("true")
  /\ CarriesPoolAgent(out)

(***************************************************************************)
(* The fetch that exits non-zero on an authentication error.               *)
(***************************************************************************)
\* the whole error text of the run holds 'private', 'sign in' or 'age restricted'
MatchesAuthPattern(stderr) == SaysSignIn(stderr) \/ SaysAgeRestricted(stderr)

\* request r made the step of _download_with_yt_dlp in which the fetch exited
\* non-zero with the error text of run
FetchFailed(r, run) ==
  /\ ~run.timeout /\ run.returncode # 0
  /\ _download_with_yt_dlp(r, run)

FetchRunsOf(log) == {i \in DOMAIN log : log[i] = "fetch"}

\* C32 as stated: when the fetch fails with an error text that matches a
\* private / sign-in / age-restricted pattern, the call returns a failure that
\* carries the authentication hint, and the fetch has run once
C32_AuthErrorCarriesHint ==
  [][\A r \in Requests : \A run \in AllFetchRuns :
       FetchFailed(r, run) /\ MatchesAuthPattern(run.stderr) =>
         /\ ~response'[r].success
         /\ response'[r].need_browser_login
         /\ Cardinality(FetchRunsOf(runs'[r])) = 1]_vars

\* C32 amended: when the fetch exits non-zero, the call returns a failure; it
\* carries the hint (need_browser_login) exactly when the URL is a YouTube URL
\* and the first 500 characters of the error text hold 'private', 'sign in' or
\* 'age restricted'; otherwise its error is 'Download failed: ' and those 500
\* characters.  In both cases the fetch has run once, it is the last run of
\* the extraction tool in the request, and the request is answered
C32_YouTubeAuthErrorCarriesHint ==
  [][\A r \in Requests : \A run \in AllFetchRuns :
       FetchFailed(r, run) =>
         LET hinted == /\ detect_platform(request[r].url) = "youtube"
                       /\ MatchesAuthPattern(First500(run.stderr))
         IN /\ response'[r].kind = "dict" /\ ~response'[r].success
            /\ response'[r].need_browser_login <=> hinted
            /\ ~hinted => response'[r].error =
                 <<"Download failed: ",
                   IF run.stderr = "" THEN "Unknown error" ELSE First500(run.stderr)>>
            /\ Cardinality(FetchRunsOf(runs'[r])) = 1
            /\ runs'[r][Len(runs'[r])] = "fetch"
            /\ req_pc'[r] = "done"]_vars

\* a request for a YouTube URL was answered with the hint after one fetch
C32_Witness ==
  /\ req_pc[1] = "done"
  /\ detect_platform(request[1].url) = "youtube"
  /\ response[1].need_browser_login
  /\ FetchRunsOf(runs[1]) = {Len(runs[1])}

(***************************************************************************)
(* increment_and_check in two server processes: each has a tracker of its  *)
(* own in memory, the file is the only thing they share, and nothing locks *)
(* it.  open(file, 'w') empties the file; the two lines are in it when the *)
(* with block closes it.                                                   *)
(***************************************************************************)
ProcessFrame ==
  UNCHANGED <<resolveVars, pureVars, downloadVars,
              today, last_reset_date, download_count, dl_pc, dl_result, http_calls, checks,
              thread_pc, oauthVars, cleanupVars, launcherVars>>

Memory(p) ==
  Tracker(proc_tracker[p].last_reset_date, proc_tracker[p].download_count, rate_limit_file)
Remembers(p, t) ==
  proc_tracker' = [proc_tracker EXCEPT ![p] =
    [last_reset_date |-> t.last_reset_date, download_count |-> t.download_count]]

\* line 192: self.load_state() reads the file; when it is missing, has fewer
\* than two lines or is of another day, load_state goes on to save_state
ProcessLoadsState(p) ==
  /\ proc_pc[p] = "idle"
  /\ ProcessFrame
  /\ started < MaxCount
  /\ started' = started + 1
  /\ LET t == load_state(Memory(p), today)
     IN /\ Remembers(p, t)
        /\ proc_pc' = [proc_pc EXCEPT ![p] =
             IF t.file = rate_limit_file THEN "increment" ELSE "reset_open"]
  /\ UNCHANGED <<rate_limit_file, finished, told_free>>

\* lines 183 and 184: open(self.rate_limit_file, 'w')
ProcessOpensFile(p) ==
  /\ proc_pc[p] \in {"reset_open", "open"}
  /\ ProcessFrame
  /\ rate_limit_file' = GarbageFile
  /\ proc_pc' = [proc_pc EXCEPT ![p] = IF @ = "open" THEN "write" ELSE "reset_write"]
  /\ UNCHANGED <<proc_tracker, started, finished, told_free>>

\* line 185: f.write(...) and the end of the with block
ProcessWritesFile(p) ==
  /\ proc_pc[p] \in {"reset_write", "write"}
  /\ ProcessFrame
  /\ rate_limit_file' = save_state(Memory(p)).file
  /\ proc_pc' = [proc_pc EXCEPT ![p] = IF @ = "write" THEN "return" ELSE "increment"]
  /\ UNCHANGED <<proc_tracker, started, finished, told_free>>

\* line 193: self.download_count += 1
ProcessIncrements(p) ==
  /\ proc_pc[p] = "increment"
  /\ ProcessFrame
  /\ Remembers(p, [Memory(p) EXCEPT !.download_count = @ + 1])
  /\ proc_pc' = [proc_pc EXCEPT ![p] = "open"]
  /\ UNCHANGED <<rate_limit_file, started, finished, told_free>>

\* lines 196-199
ProcessReturns(p) ==
  /\ proc_pc[p] = "return"
  /\ ProcessFrame
  /\ finished' = finished + 1
  /\ told_free' = IF is_at_limit(proc_tracker[p].download_count)
                  THEN told_free ELSE told_free + 1
  /\ proc_pc' = [proc_pc EXCEPT ![p] = "idle"]
  /\ UNCHANGED <<rate_limit_file, proc_tracker, started>>

InitProcesses ==
  ResolveIdle /\ LimiterIdle /\ PureIdle /\ DownloadIdle /\ ThreadsIdle /\ ServicesIdle

NextProcesses ==
  \/ \E p \in Processes : ProcessLoadsState(p)
  \/ \E p \in Processes : ProcessOpensFile(p)
  \/ \E p \in Processes : ProcessWritesFile(p)
  \/ \E p \in Processes : ProcessIncrements(p)
  \/ \E p \in Processes : ProcessReturns(p)

SpecProcesses == InitProcesses /\ [][NextProcesses]_vars

\* no process is inside increment_and_check
NoProcessInside == \A p \in Processes : proc_pc[p] = "idle"

\* C33: with two processes on one state file and no lock, once every call has
\* returned the file holds the two lines of the current date with a count
\* of at least 1 and at most the number of calls; that the count can stay
\* behind the number of calls is the lost update of the claim, reached in
\* C33_Witness
C33_CountBetweenOneAndCalls ==
  NoProcessInside /\ finished >= 1 =>
    /\ rate_limit_file.kind = "lines"
    /\ rate_limit_file.date = today
    /\ 1 <= rate_limit_file.count /\ rate_limit_file.count <= finished
    /\ told_free <= finished

\* two increment_and_check calls have returned, both were told is_at_limit =
\* False, and the persisted count has grown from 0 to 1 only
C33_Witness ==
  /\ NoProcessInside
  /\ finished = 2
  /\ told_free = 2
  /\ rate_limit_file = SavedFile(today, 1)

\* more calls than the cap were told is_at_limit = False on one date
MoreThanCapToldFree == NoProcessInside /\ told_free > limit_per_day

(***************************************************************************)
(* The format list of a successful resolve.                                *)
(***************************************************************************)
\* C34: every resolve result with success = True carries a non-empty format
\* list, on every platform path and for every combination of source outcomes
C34_SuccessHasFormats ==
  Done /\ result.success => result.formats # <<>>

\* a resolve that succeeded on the yt-dlp tier although the format discovery
\* failed: the result carries the ten default entries
C34_Witness ==
  /\ Done /\ result.success
  /\ result.formats = _get_default_formats
  /\ \E i \in 1..Len(calls) : calls[i].kind = "formats"

(***************************************************************************)
(* What one Spotify download attempt does to the persisted counter.        *)
(***************************************************************************)
\* a call of _download_spotify starts
AttemptStarts == \E u \in URLs : \E rapidapi_key \in ApiKeys : _download_spotify(u, rapidapi_key)

\* the count the file holds for the date now
CountOf(file, now) == IF file.kind = "lines" /\ file.date = now THEN file.count ELSE 0

\* the remaining values the caller and the log have been given
ReportedRemaining ==
  {checks[i].remaining : i \in DOMAIN checks}
  \cup (IF dl_result.remaining_downloads = Absent THEN {}
        ELSE {dl_result.remaining_downloads[1]})

LimiterState == <<rate_limit_file, last_reset_date, download_count>>

\* no Spotify download was asked for since the process started
LimiterUnused == today = 1 /\ download_count = 0 /\ dl_result = NoDownload

\* the requests are served one at a time; Spotify downloads go on until an
\* analysis or a yt-dlp download starts, and those of other platforms start
\* while the limiter is unused
NextServer ==
  \/ /\ pc = "idle" /\ req_pc[1] = "idle" /\ dl_pc = "idle"
     /\ \E u \in URLs : /\ detect_platform(u) = "spotify" \/ LimiterUnused
                        /\ get_video_info(u)
  \/ pc # "idle" /\ Next
  \/ /\ pc = "idle" /\ dl_pc = "idle"
     /\ req_pc[1] = "idle" => LimiterUnused
     /\ NextDownload
  \/ pc = "idle" /\ req_pc[1] = "idle" /\ NextLimiter

SpecServer == Init /\ [][NextServer]_vars

\* C36: a step of an analysis (of a Spotify URL or any other) or of a
\* download of another platform leaves the rate limiter's date key and count
\* as they were; a step that changes them is the start of a _download_spotify
\* call, and it changes nothing of the analyses and yt-dlp downloads.
C36_OnlySpotifyDownloadCounts ==
  [][ /\ LimiterState' # LimiterState =>
           AttemptStarts /\ UNCHANGED <<resolveVars, downloadVars>>
      /\ (pc' # pc \/ req_pc' # req_pc) => UNCHANGED LimiterState ]_vars

\* a Spotify URL was analysed after three Spotify downloads: the count is
\* still 3
C36_Witness ==
  /\ Done /\ result.success /\ result.platform = "spotify"
  /\ rate_limit_file = SavedFile(today, 3) /\ download_count = 3

\* a yt-dlp download has answered with the limiter as it was at the start
C36_DownloadLeftLimiter ==
  req_pc[1] = "done" /\ LimiterState = <<SavedFile(1, 0), 1, 0>>

(***************************************************************************)
(* The token of the output template and the token the locator looks for.   *)
(***************************************************************************)
\* the files request r's fetch has written
WrittenBy(r) == {f \in base_dir : f.writer = r}

\* C37: for every media type and quality label, once the fetch has exited 0
\* the suffix the locator searches for is the token the fetch put into its
\* output template, and so the token of the file the fetch wrote
C37_LocatorSuffixIsFetchToken ==
  \A r \in Requests :
    req_pc[r] = "info" =>
      /\ quality_suffix(request[r].quality, request[r].media_type)
           = FetchCommand(request[r].quality, request[r].media_type).token
      /\ \A f \in WrittenBy(r) :
           f.token = quality_suffix(request[r].quality, request[r].media_type)

\* media type 'audio' with the format id '192': the fetch wrote a file with
\* '__audio' and the locator is about to look for '__192'
C37_AudioTokenMismatch ==
  /\ req_pc[1] = "info"
  /\ request[1].media_type = "audio" /\ request[1].quality = <<"192">>
  /\ \E f \in WrittenBy(1) : f.token = <<"__audio">>
  /\ quality_suffix(request[1].quality, request[1].media_type) = <<"__", "192">>

(***************************************************************************)
(* The Google sign-in: /api/oauth2authorize, /api/oauth2callback and       *)
(* /api/oauth2logout, for browsers that each keep their session cookie.    *)
(***************************************************************************)
\* the model follows the sign-in until MaxStates state values have been made
MaxStates == 3
States == 1..MaxStates

\* the query string of a callback request: 'state' (none, the made-up value
\* 0 or a value authorize has made), whether 'error' and 'code' are given,
\* and whether Google accepts the code
CallbackArgs ==
  [state : {Absent} \cup {Some(s) : s \in {0} \cup States}, error : BOOLEAN, code : BOOLEAN,
   accepted : BOOLEAN]

\* a state value that has not been made yet cannot be presented
Presentable(request_state) ==
  IF request_state = Absent THEN TRUE ELSE request_state[1] <= issued

OAuthFrame ==
  UNCHANGED <<resolveVars, limiterVars, pureVars, downloadVars, threadVars, procVars,
              cleanupVars, launcherVars>>

\* authorize: the client id and secret are configured or not; the state that
\* flow.authorization_url returns is a new random token
authorize(b, configured) ==
  /\ OAuthFrame
  /\ UNCHANGED last_cb
  /\ IF configured
     THEN /\ issued < MaxStates
          /\ issued' = issued + 1
          /\ session' = [session EXCEPT ![b].oauth_state = Some(issued + 1)]
     ELSE UNCHANGED <<session, issued>>

\* the redirect of oauth2callback: auth_status=failed with an error, or success
CallbackError(stored_state, args) ==
  IF stored_state = Absent \/ args.state # stored_state THEN "invalid_state"
  ELSE IF args.error THEN "<error>"
  ELSE IF ~args.code THEN "no_code"
  ELSE IF ~args.accepted THEN "callback_failed"
  ELSE ""

\* mutant: the state is read and left in the session
session_pop_kept(s) == s

\* session.pop('oauth_state', None)
session_pop(s) == [s EXCEPT !.oauth_state = Absent]

oauth2callback(b, args) ==
  /\ OAuthFrame
  /\ Presentable(args.state)
  /\ UNCHANGED issued
  /\ LET session_state == session[b].oauth_state
         popped == session_pop(session[b])
         error == CallbackError(session_state, args)
     IN /\ session' = [session EXCEPT ![b] =
                        IF error = "" THEN [popped EXCEPT !.credentials = Some("creds_dict")]
                        ELSE popped]
        /\ last_cb' = [browser |-> b, state |-> args.state,
                       before |-> session[b].oauth_state,
                       left |-> session'[b].oauth_state,
                       error |-> error,
                       stored |-> session'[b].credentials # session[b].credentials
                                  \/ error = "",
                       replay |-> last_cb.browser = b /\ last_cb.state = args.state]

\* oauth_logout: session.clear()
oauth_logout(b) ==
  /\ OAuthFrame
  /\ session[b] # NoSession
  /\ session' = [session EXCEPT ![b] = NoSession]
  /\ UNCHANGED <<issued, last_cb>>

NextOAuth ==
  \/ \E b \in Browsers : \E configured \in BOOLEAN : authorize(b, configured)
  \/ \E b \in Browsers : b \in DOMAIN session /\ \E args \in CallbackArgs : oauth2callback(b, args)
  \/ \E b \in Browsers : oauth_logout(b)

SpecOAuth == Init /\ [][NextOAuth]_vars

sleep_period == 1800
\* 'if file_age > 7200'
max_age == 7200
\* the model follows the process for MaxTicks sleep periods
MaxTicks == 5

CleanupFrame ==
  UNCHANGED <<resolveVars, limiterVars, pureVars, downloadVars, threadVars, procVars,
              oauthVars, launcherVars>>

Tick ==
  /\ CleanupFrame
  /\ clock < MaxTicks * sleep_period
  /\ clock' = clock + sleep_period
  /\ UNCHANGED <<download_dir, cleanup_pc, current_time, todo, cleanup_file, passes>>

\* a request thread writes a download: open(filepath, 'wb') of
\* _download_spotify, the output file of yt-dlp
WritesFile(name) ==
  /\ CleanupFrame
  /\ download_dir' = [download_dir EXCEPT ![name] = Some(clock)]
  /\ UNCHANGED <<clock, cleanup_pc, current_time, todo, cleanup_file, passes>>

\* the listing of os.listdir(DOWNLOAD_DIR)
listdir == {name \in FileNames : download_dir[name] # Absent}

\* the pass wakes up: current_time and the listing
CleanupWakes ==
  /\ CleanupFrame
  /\ cleanup_pc = "sleep"
  /\ cleanup_pc' = "scan"
  /\ current_time' = clock
  /\ todo' = listdir
  /\ cleanup_file' = ""
  /\ passes' = [NoPass EXCEPT !.listed = listdir]
  /\ UNCHANGED <<clock, download_dir>>

\* the loop goes on with the next name, or the pass is over
NextName(rest) ==
  /\ todo' = rest
  /\ cleanup_pc' = IF rest = {} THEN "sleep" ELSE "scan"
  /\ cleanup_file' = ""

\* mutant: a name with a leading '.' is treated like any other
startswith_dot_ignored(name) == FALSE

\* filename.startswith('.')
startswith_dot(name) == name \in HiddenNames

\* one turn of the for loop up to os.remove: isfile, the test of the name, the
\* age test; raises stands for an exception of os.path.getmtime
CleanupLooks(name, raises) ==
  /\ CleanupFrame
  /\ cleanup_pc = "scan" /\ name \in todo
  /\ UNCHANGED <<clock, download_dir, current_time>>
  /\ IF download_dir[name] = Absent
     THEN \* os.path.isfile is False: continue
          /\ NextName(todo \ {name})
          /\ passes' = [passes EXCEPT !.looked = @ \cup {name}]
     ELSE IF startswith_dot(name)
     THEN /\ NextName(todo \ {name})
          /\ passes' = [passes EXCEPT !.looked = @ \cup {name}]
     ELSE IF raises
     THEN /\ NextName(todo \ {name})
          /\ passes' = [passes EXCEPT !.looked = @ \cup {name}, !.failed = @ \cup {name}]
     ELSE IF current_time - download_dir[name][1] > max_age
     THEN /\ cleanup_pc' = "remove"
          /\ cleanup_file' = name
          /\ todo' = todo \ {name}
          /\ passes' = [passes EXCEPT !.looked = @ \cup {name}]
     ELSE /\ NextName(todo \ {name})
          /\ passes' = [passes EXCEPT !.looked = @ \cup {name}]

\* os.remove(filepath); raises stands for an exception (the file is gone, or
\* it cannot be removed)
CleanupRemoves(raises) ==
  /\ CleanupFrame
  /\ cleanup_pc = "remove"
  /\ UNCHANGED <<clock, current_time>>
  /\ NextName(todo)
  /\ IF raises \/ download_dir[cleanup_file] = Absent
     THEN /\ UNCHANGED download_dir
          /\ passes' = [passes EXCEPT !.failed = @ \cup {cleanup_file}]
     ELSE /\ download_dir' = [download_dir EXCEPT ![cleanup_file] = Absent]
          /\ passes' = [passes EXCEPT !.removed = @ \cup
                          {[name |-> cleanup_file, mtime |-> download_dir[cleanup_file][1],
                            pass |-> current_time]}]

NextCleanup ==
  \/ Tick
  \/ \E name \in DownloadNames : WritesFile(name)
  \/ CleanupWakes
  \/ \E name \in FileNames : \E raises \in BOOLEAN : CleanupLooks(name, raises)
  \/ \E raises \in BOOLEAN : CleanupRemoves(raises)

SpecCleanup == Init /\ [][NextCleanup]_vars

\* C39 as stated: a pass removes no file whose name begins with '.' and no
\* file modified less than 2 hours before the pass, whatever the downloads do
\* meanwhile; and a pass that failed on a file has still looked at every file
\* it listed.
C39_CleanupSparesHiddenAndRecent ==
  /\ \A f \in passes.removed :
       /\ f.name \notin HiddenNames
       /\ ~(f.pass - f.mtime < max_age)
  /\ cleanup_pc = "sleep" => passes.looked = passes.listed

\* the pass found 'T - artist.mp3' older than two hours, a download wrote the
\* file again, and os.remove deleted the file just written
C39_RemovedFreshFile ==
  \E f \in passes.removed : f.name = "T - artist.mp3" /\ f.mtime >= f.pass

\* the rest of the claim: no hidden file is removed, every removed file was
\* older than two hours when the pass looked at it or was written during the
\* pass, and a pass that failed on a file has looked at every file it listed
C39_HiddenKeptAndPassCompletes ==
  /\ \A f \in passes.removed :
       /\ f.name \notin HiddenNames
       /\ f.pass - f.mtime > max_age \/ f.mtime >= f.pass
  /\ cleanup_pc = "sleep" => passes.looked = passes.listed

\* a pass that failed on one file and removed another
C39_FailedOnOneRemovedOther ==
  /\ cleanup_pc = "sleep"
  /\ passes.failed # {} /\ passes.removed # {}
  /\ \A f \in passes.removed : f.name \notin passes.failed

(***************************************************************************)
(* The launcher: JayDLLauncher.run starts the backend, the frontend and    *)
(* the chatbot and then polls them once a second.  A child process is      *)
(* "none" (not started), "running", "exited" (on its own), "terminated"    *)
(* (after terminate()) or "killed" (after kill()).                         *)
(***************************************************************************)
LauncherFrame ==
  UNCHANGED <<resolveVars, limiterVars, pureVars, downloadVars, threadVars, procVars,
              oauthVars, cleanupVars>>

\* run returns value
RunReturns(value) == run_pc' = "returned" /\ returned' = Some(value)

\* subprocess.Popen gave a process for the service
Started(name) ==
  /\ child' = [child EXCEPT ![name] = "running"]
  /\ processes' = Append(processes, name)

\* check_dependencies, install_dependencies and create_downloads_dir
CheckDependencies(ok) ==
  /\ LauncherFrame
  /\ run_pc = "check"
  /\ IF ok THEN run_pc' = "backend" /\ UNCHANGED returned ELSE RunReturns(FALSE)
  /\ UNCHANGED <<child, processes, cursor, active, watch>>

start_backend(ok) ==
  /\ LauncherFrame
  /\ run_pc = "backend"
  /\ IF ok
     THEN /\ Started("backend")
          /\ run_pc' = "frontend"
          /\ UNCHANGED <<returned, watch>>
     ELSE /\ RunReturns(FALSE)
          /\ watch' = [watch EXCEPT !.failed_start = "backend"]
          /\ UNCHANGED <<child, processes>>
  /\ UNCHANGED <<cursor, active>>

\* 'if not self.start_frontend(): self.stop_all(); return False'
start_frontend(ok) ==
  /\ LauncherFrame
  /\ run_pc = "frontend"
  /\ IF ok
     THEN /\ Started("frontend")
          /\ run_pc' = "chatbot"
          /\ UNCHANGED watch
     ELSE /\ run_pc' = "stop"
          /\ watch' = [watch EXCEPT !.failed_start = "frontend"]
          /\ UNCHANGED <<child, processes>>
  /\ UNCHANGED <<cursor, active, returned>>

\* what start_chatbot comes to: no chatbot directory, npm install failed,
\* node not found, another exception, or the process started
ChatbotOutcomes == {"no_dir", "npm_failed", "no_node", "error", "started"}

\* start_chatbot returns True in every case and run ignores the value
start_chatbot(outcome) ==
  /\ LauncherFrame
  /\ run_pc = "chatbot"
  /\ run_pc' = "monitor"
  /\ IF outcome = "started"
     THEN Started("chatbot") /\ UNCHANGED watch
     ELSE /\ UNCHANGED <<child, processes>>
          /\ watch' = [watch EXCEPT !.failed_start = "chatbot"]
  /\ UNCHANGED <<cursor, active, returned>>

\* a child process ends on its own
ChildExits(name) ==
  /\ LauncherFrame
  /\ child[name] = "running"
  /\ child' = [child EXCEPT ![name] = "exited"]
  /\ UNCHANGED <<run_pc, processes, cursor, active, returned, watch>>

\* one turn of the for loop of the monitor: process.poll() of one process
MonitorPolls ==
  /\ LauncherFrame
  /\ run_pc = "monitor" /\ cursor <= Len(processes)
  /\ LET name == processes[cursor]
     IN IF child[name] = "running"
        THEN active' = Append(active, name) /\ UNCHANGED watch
        ELSE /\ UNCHANGED active
             /\ watch' = [watch EXCEPT !.exited = @ \cup {name}]
  /\ cursor' = cursor + 1
  /\ UNCHANGED <<run_pc, child, processes, returned>>

\* sum(1 for name, _ in self.processes if name in ['backend', 'frontend'])
critical_services(procs) == Cardinality(Range(procs) \cap {"backend", "frontend"})

\* the end of a turn of the while loop: self.processes = active_processes and
\* the test of the critical services
MonitorCounts ==
  /\ LauncherFrame
  /\ run_pc = "monitor" /\ cursor > Len(processes)
  /\ processes' = active
  /\ active' = <<>>
  /\ cursor' = 1
  /\ run_pc' = IF critical_services(active) < 2 THEN "stop" ELSE "monitor"
  /\ UNCHANGED <<child, returned, watch>>

\* mutant: terminate() only, no kill() when the wait times out
stop_one_noKill(status, obeys) ==
  IF status = "running" /\ obeys THEN "terminated" ELSE status

\* one turn of stop_all on a process: terminate(), wait(timeout=5), and kill()
\* when the wait timed out; obeys says whether the child ends within the 5 s
stop_one(status, obeys) ==
  IF status = "running" THEN IF obeys THEN "terminated" ELSE "killed"
  ELSE status

\* stop_all: one turn of its for loop, and 'return False' after the last
stop_all(obeys) ==
  /\ LauncherFrame
  /\ run_pc = "stop"
  /\ IF cursor <= Len(processes)
     THEN LET name == processes[cursor]
          IN /\ child' = [child EXCEPT ![name] = stop_one(child[name], obeys)]
             /\ watch' = IF child'[name] # child[name]
                         THEN [watch EXCEPT !.stopped = @ \cup {name}] ELSE watch
             /\ cursor' = cursor + 1
             /\ UNCHANGED <<run_pc, returned>>
     ELSE /\ RunReturns(FALSE)
          /\ UNCHANGED <<child, cursor, watch>>
  /\ UNCHANGED <<processes, active>>

\* the steps the launcher takes by itself once the services are started
LauncherStep == MonitorPolls \/ MonitorCounts \/ \E obeys \in BOOLEAN : stop_all(obeys)

NextLauncher ==
  \/ \E ok \in BOOLEAN : CheckDependencies(ok)
  \/ \E ok \in BOOLEAN : start_backend(ok)
  \/ \E ok \in BOOLEAN : start_frontend(ok)
  \/ \E outcome \in ChatbotOutcomes : start_chatbot(outcome)
  \/ \E name \in Services : ChildExits(name)
  \/ MonitorPolls
  \/ MonitorCounts
  \/ \E obeys \in BOOLEAN : stop_all(obeys)

\* the loop polls once a second and stop_all waits at most 5 s for a child: a
\* step the launcher can take is taken
SpecLauncher == Init /\ [][NextLauncher]_vars /\ WF_vars(LauncherStep)

Running == {name \in Services : child[name] = "running"}

Critical == {"backend", "frontend"}

\* the frontend is started only after the backend; stop_all runs only after
\* the frontend failed to start or the monitor loop saw the backend or the
\* frontend gone, never for the chatbot alone; and a run that started the
\* backend has returned False with no child left running, each child it
\* stopped terminated or killed
LauncherSafe ==
  /\ child["frontend"] # "none" => child["backend"] # "none"
  /\ child["chatbot"] # "none" => child["frontend"] # "none"
  /\ run_pc \in {"stop", "returned"} /\ child["backend"] # "none" =>
       watch.failed_start = "frontend" \/ watch.exited \cap Critical # {}
  /\ run_pc = "returned" /\ child["backend"] # "none" =>
       /\ returned = Some(FALSE)
       /\ Running = {}
       /\ \A name \in watch.stopped : child[name] \in {"terminated", "killed"}
       /\ \A name \in Services : child[name] \in {"terminated", "killed"} => name \in watch.stopped

\* C40: the frontend is started only after the backend started; a failed
\* frontend start stops the backend; in the monitor loop the exit of the
\* backend or the frontend leads to run returning False with every child that
\* still ran terminated or killed; the exit or the failed start of the chatbot
\* alone never ends run.
C40_CriticalExitStopsAll ==
  /\ []LauncherSafe
  /\ (run_pc = "monitor" /\ Critical \ Running # {})
       ~> (run_pc = "returned" /\ returned = Some(FALSE) /\ Running = {})
  /\ (watch.failed_start = "frontend")
       ~> (run_pc = "returned" /\ returned = Some(FALSE) /\ child["backend"] # "running")

\* the frontend exited while the chatbot ran: run returned False and the
\* chatbot, which did not end within 5 s, was killed
C40_Witness ==
  /\ run_pc = "returned" /\ returned = Some(FALSE)
  /\ child = [name \in Services |->
               CASE name = "backend" -> "terminated"
                 [] name = "frontend" -> "exited"
                 [] name = "chatbot" -> "killed"]

\* the chatbot has exited and the launcher keeps running
C40_ChatbotExitedLauncherRuns ==
  /\ run_pc = "monitor" /\ child["chatbot"] = "exited" /\ processes = <<"backend", "frontend">>
  /\ "chatbot" \in watch.exited /\ cursor = 1
====
